---- MODULE Spec2Model ----
(***************************************************************************)
(* Model of luxon's shared-memory hash map (BoostHashMap in ipc.h and its  *)
(* Cython wrapper BytesHashMap in luxon/structs/ipc.pyx).                  *)
(*                                                                         *)
(* One managed shared-memory segment is shared by the processes of Procs.  *)
(* Each process owns one BytesHashMap handle and runs one operation at a   *)
(* time; every operation is split into the steps at which other processes *)
(* can interleave: find_or_construct of the mutex, acquisition of the      *)
(* mutex, find_or_construct of the map, the container calls, and the       *)
(* return (scoped_lock destructor plus the wrapper's exception mapping).   *)
(***************************************************************************)
EXTENDS Integers, Sequences, FiniteSets, TLC

(* ----------------------------- bounds --------------------------------- *)

\* Byte size given to the constructor that creates the segment (in allocation
\* units).
SegSize == 10
\* Cap on the position counter of the Python generator __iter__.
MaxCnt == 3

(* ------------------------- allocation sizes --------------------------- *)

\* Units taken by the segment manager's own header at creation.
HdrCost == 1
\* Units taken by the named interprocess_sharable_mutex "mtx".
MtxCost == 1
\* Units taken by a named, empty ShmMap (object plus bucket array).
MapObjCost == 1
\* Units taken by one unordered_map node, besides its key and value bytes.
NodeCost == 1

(* ------------------------------ domains ------------------------------- *)

Procs == {"p1", "p2"}
NoProc == "none"
\* the process whose completed calls the history variable abs follows
Writer == "p1"
MapNames == {"default", "aux"}
Keys == {"a", "b"}
Values == {"x", "yyy"}
\* Bytes an out-of-range iterator can be read as.
Junk == "?"

\* A byte size smaller than SegSize, and the sizes given to constructors.
SmallSize == SegSize - 3
Sizes == {SmallSize, SegSize}

LockedOps == {"set", "get", "erase", "iter", "clear"}
UnlockedOps == {"size", "free"}
MutatingOps == {"set", "erase", "clear"}

NoOp == [name |-> "none", key |-> "", val |-> "", pos |-> 0, seen |-> ""]
NoOut == [val |-> "", num |-> 0]
NoSnap == [maps |-> [n \in MapNames |-> <<>>], made |-> {}]
OldLife == [phase |-> "old", had |-> {}]
NoOrphan == [size |-> 0, mtx |-> FALSE, made |-> {},
             maps |-> [n \in MapNames |-> <<>>], late |-> {}]
\* the process whose traversals the history variable trav follows
Reader == "p2"
NoTrav == [on |-> FALSE, got |-> <<>>, kept |-> {}, calm |-> FALSE, named |-> FALSE]

(* --------------------------- Python objects --------------------------- *)

\* The classes of handle: BytesHashMap, MarshalHashMap, PickleHashMap.
Codecs == {"raw", "marshal", "pickle"}

\* Python objects given as key or value. val is the value of the object, by
\* which == and hash() go; made is how the object came to be, which == does
\* not see.
S_lit == [val |-> "'ab'", made |-> "literal"]
S_new == [val |-> "'ab'", made |-> "joined"]
B_a == [val |-> "b'a'", made |-> "bytes"]
B_x == [val |-> "b'x'", made |-> "bytes"]
N7 == [val |-> "7", made |-> "int"]
\* an object whose __reduce__ names a callable that raises RecursionError
TrapRT == [val |-> "TrapRT()", made |-> "instance"]
Lambda == [val |-> "lambda", made |-> "function"]

PyKeys == {S_lit, S_new, B_a, Lambda}
PyValues == {N7, B_x, TrapRT, Lambda}
\* the values the structured codecs are required to carry: numbers, strings,
\* bytes, containers of them
PlainVals == {o.val : o \in {S_lit, B_a, B_x, N7}}
KeyVals == {o.val : o \in PyKeys}

NoPy == [key |-> N7, val |-> N7, err |-> "none"]
Absent == [val |-> "absent", bytes |-> "", key |-> "", last |-> FALSE]
NoDict == [k \in KeyVals |-> Absent]
\* the exceptions of Python that are RuntimeError or a subclass of it
RuntimeErrors == {"RuntimeError", "RecursionError"}

\* Bytes are written in hexadecimal, two digits a byte.
Bytes(b) == [err |-> "none", bytes |-> b]
Raises(e) == [err |-> e, bytes |-> ""]

\* What reaches BoostHashMap for the object o. BytesHashMap passes the object
\* as char *, which Cython allows for bytes only. marshal.dumps writes a str as
\* TYPE_SHORT_ASCII_INTERNED (0x5a) when the object is interned and as
\* TYPE_SHORT_ASCII (0x7a) when not, and sets FLAG_REF (0x80) on an object
\* that has other references, as an argument of the wrapper method has.
\* pickle.dumps writes a str the same way however it was made.
Dumps(c, o) ==
    CASE c = "raw" ->
           (CASE o = B_a -> Bytes("61")
              [] o = B_x -> Bytes("78")
              [] OTHER -> Raises("TypeError"))
      [] c = "marshal" ->
           (CASE o = S_lit -> Bytes("da026162")
              [] o = S_new -> Bytes("fa026162")
              [] o = B_a -> Bytes("f30100000061")
              [] o = B_x -> Bytes("f30100000078")
              [] o = N7 -> Bytes("e907000000")
              [] OTHER -> Raises("ValueError"))
      [] c = "pickle" ->
           (CASE o \in {S_lit, S_new} -> Bytes("80049506000000000000008c026162942e")
              [] o = B_a -> Bytes("8004950500000000000000430161942e")
              [] o = B_x -> Bytes("8004950500000000000000430178942e")
              [] o = N7 -> Bytes("80044b072e")
              [] o = TrapRT -> Bytes("80049518000000000000008c085f5f6d61696e5f5f948c04626f6f6d9493942952942e")
              [] OTHER -> Raises("PicklingError"))

Value(v) == [err |-> "none", val |-> v]
Fails(e) == [err |-> e, val |-> ""]

\* What the wrapper makes of the bytes b the C++ call returned: BytesHashMap
\* the bytes object of these bytes, the others _CODEC.loads(b).
Loads(c, b) ==
    CASE c = "raw" ->
           (CASE b = "61" -> Value("b'a'")
              [] b = "78" -> Value("b'x'")
              [] OTHER -> Value(b))
      [] c = "marshal" ->
           (CASE b \in {"da026162", "fa026162"} -> Value("'ab'")
              [] b = "f30100000061" -> Value("b'a'")
              [] b = "f30100000078" -> Value("b'x'")
              [] b = "e907000000" -> Value("7")
              [] OTHER -> Fails("ValueError"))
      [] c = "pickle" ->
           (CASE b = "80049506000000000000008c026162942e" -> Value("'ab'")
              [] b = "8004950500000000000000430161942e" -> Value("b'a'")
              [] b = "8004950500000000000000430178942e" -> Value("b'x'")
              [] b = "80044b072e" -> Value("7")
              [] b = "80049518000000000000008c085f5f6d61696e5f5f948c04626f6f6d9493942952942e" ->
                    Fails("RecursionError")
              [] OTHER -> Fails("UnpicklingError"))

(* ------------------------------ LRU cache ----------------------------- *)

\* Largest capacity given to the LRUCache constructor.
MaxCap == 3
\* the capacities the constructor takes: an int, which it does not check
Caps == (-1)..MaxCap
\* the capacities the cache is specified for
GoodCaps == 1..MaxCap

Threads == {"t1", "t2"}
\* the thread that uses the cache alone
Owner == "t1"
LKeys == {"a", "b", "c"}
LVals == {"1", "2"}
\* the default LRU.get returns on a miss
Default == "None"

\* NULL, and the addresses `new Node` can return
Null == 0
\* pageMap.find(key) == pageMap.end()
NoPage == -1
Addrs == 1..(Cardinality(LKeys) + 2)

\* memory that holds no Node yet
NoNode == [key |-> "", value |-> "", prev |-> Null, next |-> Null, live |-> FALSE]

\* LRUCache(capacity): size = 0, an empty list, an empty map
NewCache(c) ==
    [capacity |-> c, size |-> 0, front |-> Null, rear |-> Null,
     pageMap |-> [k \in LKeys |-> NoPage], node |-> [a \in Addrs |-> NoNode]]

\* a thread outside the cache's methods; name is the method of LRU it called,
\* page, val, k, temp are the C++ locals of these names, i1 the position of
\* the destructor's iterator of that name in MapOrder
NoCall == [pc |-> "idle", name |-> "none", key |-> "", value |-> "",
           page |-> Null, val |-> "", k |-> "", temp |-> Null,
           res |-> "none", ret |-> "", i1 |-> 0]
\* the keys in the order std::map<std::string, Node*> keeps them
MapOrder == <<"a", "b", "c">>
\* calls two threads make on one cache in the runs explored
MaxCalls == 3
NoUse == [order |-> <<>>, val |-> [k \in LKeys |-> ""], overlapped |-> FALSE,
          calls |-> 0]

VARIABLES
    mtx_made,   \* the named object "mtx" exists in the segment
    holder,     \* process holding the mutex exclusively, or NoProc
    made,       \* names of the ShmMap objects constructed in the segment
    maps,       \* per map name, its entries <<key, value>> in iteration order
    handle,     \* per process, the map_name its handle was constructed with
    name_mem,   \* per process, the bytes now stored where this->map_name points
    pc,         \* per process, its position inside the current operation
    op,         \* per process, the call in progress, its arguments, and for a
                \* get the history value of its key when the call started
    exc,        \* per process, the C++ exception the operation has thrown
    out,        \* per process, the Bytes / number the C++ call returns
    cnt,        \* per process, the generator's position counter
    snap,       \* per process, the maps as they were when it took the mutex
    abs,        \* per key, the value the completed calls of Writer imply
    seg_size,   \* byte size the segment of this name was created with; 0 while
                \* no segment has the name
    att,        \* per process, what its handle is attached to: "none" (no
                \* handle), "created" (the segment of this name, which its
                \* constructor created), "found" (that segment, which its
                \* constructor found, no set, erase or clear having been
                \* started since), "attached" (that segment, otherwise),
                \* "stale" (a segment whose name has been removed)
    orphan,     \* the segment whose name shmfree removed, as the stale handles
                \* still have it mapped: its size, whether it holds the
                \* mutex object, its maps; late: the keys set in it since
    life,       \* phase: "removed" after shmfree until the next constructor,
                \* "fresh" from then until the first set is started, "old"
                \* otherwise; had: the keys the removed segment stored
    codec,      \* the class of the handles: "raw" (BytesHashMap), "marshal"
                \* (MarshalHashMap) or "pickle" (PickleHashMap)
    py,         \* per process, the Python objects given to the wrapper method
                \* last called, and the exception it raised before reaching
                \* the C++ call
    pydict,     \* per Python key value, the value of the last set of that key
                \* that completed, no erase or clear having completed since,
                \* the key bytes of that set, and last: no set, erase or
                \* clear has changed the map since that set
    lru,        \* the LRUCache object: capacity, size, pageMap (per key, the
                \* node it is indexed to, or NoPage), front and rear of the
                \* DoublyLinkedList, and per address the Node stored there
                \* (live: allocated and not deleted)
    thr,        \* per thread, the LRU method it is in: its position, its
                \* arguments, its local variables, and its result
    used,       \* what the completed calls on the cache imply: order, the
                \* cached keys from the most to the least recently used; val,
                \* per key its value; overlapped, two calls have been in
                \* progress at once
    trav        \* the traversal Reader's generator is making: on: a traversal
                \* is under way; got: the keys of the entries its calls have
                \* returned; kept: the keys whose entry has been in the map
                \* the handle names since it began; calm: that map has not
                \* changed since; named: every call looked that map up

vars == <<mtx_made, holder, made, maps, handle, name_mem, pc, op, exc, out,
          cnt, snap, abs, seg_size, att, orphan, life, codec, py, pydict,
          lru, thr, used, trav>>

\* the variables of the serializing wrappers
wrap == <<codec, py, pydict>>

\* the variables of the LRU cache
lruv == <<lru, thr, used>>

(* ------------------------ container operators ------------------------- *)

\* unordered_map::find(key) != end()
HasKey(m, k) == \E i \in 1..Len(m) : m[i][1] = k

\* position of the entry unordered_map::find(key) returns
IndexOf(m, k) == CHOOSE i \in 1..Len(m) : m[i][1] = k

\* f->second of the entry found
ValueAt(m, k) == m[IndexOf(m, k)][2]

\* unordered_map::erase(key): removes the entry when present
EraseKey(m, k) == SelectSeq(m, LAMBDA e : e[1] # k)

\* the orders in which a map can hold the new entry after insert(); the place
\* is decided by the hash bucket and is not specified
InsertSet(m, k, v) ==
    IF HasKey(m, k) THEN {m}
    ELSE {SubSeq(m, 1, i - 1) \o <<(<<k, v>>)>> \o SubSeq(m, i, Len(m)) :
              i \in 1..(Len(m) + 1)}

\* bytes of one entry in the segment
EntryCost(k, v) == NodeCost + Len(k) + Len(v)

RECURSIVE EntriesCost(_)
EntriesCost(m) ==
    IF m = <<>> THEN 0
    ELSE EntryCost(m[1][1], m[1][2]) + EntriesCost(Tail(m))

RECURSIVE MapsCost(_, _)
MapsCost(S, ms) ==
    IF S = {} THEN 0
    ELSE LET n == CHOOSE x \in S : TRUE
         IN  MapObjCost + EntriesCost(ms[n]) + MapsCost(S \ {n}, ms)

\* managed_shared_memory::get_free_memory()
FreeIn(sz, mm, md, ms) == sz - HdrCost - (IF mm THEN MtxCost ELSE 0) - MapsCost(md, ms)
FreeOf(mm, md, ms) == FreeIn(seg_size, mm, md, ms)
Free == FreeOf(mtx_made, made, maps)

(* ------------------------------- Init --------------------------------- *)

Init ==
    /\ mtx_made = FALSE
    /\ holder = NoProc
    /\ made = {}
    /\ maps = [n \in MapNames |-> <<>>]
    /\ handle \in {h \in [Procs -> MapNames] : h[Writer] = "default"}
    /\ name_mem = handle
    /\ pc = [p \in Procs |-> "idle"]
    /\ op = [p \in Procs |-> NoOp]
    /\ exc = [p \in Procs |-> "none"]
    /\ out = [p \in Procs |-> NoOut]
    /\ cnt = [p \in Procs |-> 0]
    /\ snap = [p \in Procs |-> NoSnap]
    /\ abs = [k \in Keys |-> "absent"]
    /\ seg_size = SegSize
    /\ att = [p \in Procs |-> IF p = Writer THEN "created" ELSE "attached"]
    /\ life = OldLife
    /\ orphan = NoOrphan
    /\ codec = "raw"
    /\ py = [p \in Procs |-> NoPy]
    /\ pydict = NoDict
    /\ lru = NewCache(1)
    /\ thr = [t \in Threads |-> NoCall]
    /\ used = NoUse
    /\ trav = NoTrav

(* ----------------------- calls of the wrapper ------------------------- *)

\* entry of a BytesHashMap method into the BoostHashMap method it calls; c is
\* the generator's counter after the entry: the generator of __iter__ is
\* consumed by a for loop whose body makes no call on the handle, so any other
\* call finds the loop left and the generator dropped
Call(p, name, k, v, c) ==
    /\ pc[p] = "idle"
    /\ op' = [op EXCEPT ![p] = [name |-> name, key |-> k, val |-> v, pos |-> c,
                                 seen |-> IF name = "get" THEN abs[k] ELSE ""]]
    /\ pc' = [pc EXCEPT ![p] = IF name \in LockedOps THEN "findmtx" ELSE "read"]
    /\ cnt' = [cnt EXCEPT ![p] = c]
    /\ UNCHANGED <<mtx_made, holder, made, maps, handle, name_mem, exc, out,
                   snap>>

\* BytesHashMap.__setitem__
SetItem(p, k, v) == Call(p, "set", k, v, 0)

\* BytesHashMap.__getitem__
GetItem(p, k) == Call(p, "get", k, "", 0)

\* BytesHashMap.__delitem__
DelItem(p, k) == Call(p, "erase", k, "", 0)

\* BytesHashMap.__iter__: one next() of the generator; fresh starts a new
\* generator, whose counter is 0
IterNext(p, fresh) ==
    /\ (~fresh) => cnt[p] < MaxCnt
    /\ Call(p, "iter", "", "", IF fresh THEN 0 ELSE cnt[p])

\* BytesHashMap.clear
Clear(p) == Call(p, "clear", "", "", 0)

\* BytesHashMap.size
Size(p) == Call(p, "size", "", "", 0)

\* BytesHashMap.free
FreeBytes(p) == Call(p, "free", "", "", 0)

\* The bytes object made by map_name.encode('UTF-8') is released when
\* __cinit__ returns, while BoostHashMap keeps the pointer to its buffer: the
\* interpreter may reuse that buffer for other bytes between two calls.
Reuse(p, n) ==
    /\ pc[p] = "idle"
    /\ n # name_mem[p]
    /\ name_mem' = [name_mem EXCEPT ![p] = n]
    /\ UNCHANGED <<mtx_made, holder, made, maps, handle, pc, op, exc, out,
                   cnt, snap>>

(* ----------------------- life of the segment -------------------------- *)

\* p has a handle on the segment the name denotes
Attached(p) == att[p] \in {"created", "found", "attached"}

\* BytesHashMap(shm_name, size, map_name): managed_shared_memory with
\* open_or_create makes a segment of size bytes, with nothing in it, when the
\* name denotes none, and maps the existing segment as it is otherwise; the
\* map name is only stored
Open(p, n, size) ==
    /\ pc[p] = "idle" /\ att[p] = "none"
    /\ IF seg_size = 0
       THEN /\ seg_size' = size
            /\ att' = [att EXCEPT ![p] = "created"]
            /\ mtx_made' = FALSE
            /\ holder' = NoProc
            /\ made' = {}
            /\ maps' = [m \in MapNames |-> <<>>]
       ELSE /\ att' = [att EXCEPT ![p] = "found"]
            /\ UNCHANGED <<seg_size, mtx_made, holder, made, maps>>
    /\ life' = IF life.phase = "removed" THEN [life EXCEPT !.phase = "fresh"]
               ELSE life
    /\ handle' = [handle EXCEPT ![p] = n]
    /\ name_mem' = [name_mem EXCEPT ![p] = n]
    /\ UNCHANGED <<pc, op, exc, out, cnt, snap, abs>>

\* The handle goes: the Python object is collected or the process exits. The
\* destructor of BoostHashMap is empty and the mapping is at most unmapped;
\* nothing counts the handles and nothing is removed.
Drop(p) ==
    /\ pc[p] = "idle" /\ att[p] # "none"
    /\ att' = [att EXCEPT ![p] = "none"]
    /\ handle' = [handle EXCEPT ![p] = "default"]
    /\ name_mem' = [name_mem EXCEPT ![p] = "default"]
    /\ cnt' = [cnt EXCEPT ![p] = 0]
    /\ UNCHANGED <<mtx_made, holder, made, maps, pc, op, exc, out, snap, abs,
                   seg_size, life>>

\* Destroy that fails without a sign, leaving the segment under its name
Destroy_NoRemove(p) ==
    /\ \A q \in Procs : pc[q] = "idle"
    /\ life' = [phase |-> "removed",
                had |-> {k \in Keys : \E n \in MapNames : HasKey(maps[n], k)}]
    /\ UNCHANGED <<mtx_made, holder, made, maps, handle, name_mem, pc, op, exc,
                   out, cnt, snap, abs, seg_size, att>>

\* free(name), shmfree: shared_memory_object::remove takes the name away. The
\* handles that have the segment mapped keep it, under no name; the variables
\* of the segment then describe no segment until a constructor makes one.
Destroy(p) ==
    /\ \A q \in Procs : pc[q] = "idle"
    /\ seg_size' = 0
    /\ att' = [q \in Procs |-> IF Attached(q) THEN "stale" ELSE att[q]]
    /\ mtx_made' = FALSE
    /\ holder' = NoProc
    /\ made' = {}
    /\ maps' = [m \in MapNames |-> <<>>]
    /\ life' = [phase |-> "removed",
                had |-> {k \in Keys : \E n \in MapNames : HasKey(maps[n], k)}]
    /\ UNCHANGED <<handle, name_mem, pc, op, exc, out, cnt, snap, abs>>

(* --------------------- steps of BoostHashMap calls -------------------- *)

\* a step of p that throws e: the call goes to its exit
Throw(p, e) ==
    /\ exc' = [exc EXCEPT ![p] = e]
    /\ pc' = [pc EXCEPT ![p] = "ret"]

\* FindMtx with get going on to the map without taking the mutex
FindMtx_ReadersSkipLock(p) ==
    /\ pc[p] = "findmtx"
    /\ IF mtx_made \/ Free >= MtxCost
       THEN /\ mtx_made' = TRUE
            /\ pc' = [pc EXCEPT ![p] = IF op[p].name = "get" THEN "findmap" ELSE "lock"]
            /\ UNCHANGED exc
       ELSE /\ Throw(p, "bad_alloc")
            /\ UNCHANGED mtx_made
    /\ UNCHANGED <<holder, made, maps, handle, name_mem, op, out, cnt, snap>>

\* shm.find_or_construct<interprocess_sharable_mutex>("mtx")(): done before
\* the mutex is held; allocates the mutex in the segment on first use
FindMtx(p) ==
    /\ pc[p] = "findmtx"
    /\ IF mtx_made \/ Free >= MtxCost
       THEN /\ mtx_made' = TRUE
            /\ pc' = [pc EXCEPT ![p] = "lock"]
            /\ UNCHANGED exc
       ELSE /\ Throw(p, "bad_alloc")
            /\ UNCHANGED mtx_made
    /\ UNCHANGED <<holder, made, maps, handle, name_mem, op, out, cnt, snap>>

\* Lock taking the mutex in sharable mode for get and iter
Lock_Sharable(p) ==
    /\ pc[p] = "lock"
    /\ \/ holder = NoProc
       \/ /\ holder # NoProc
          /\ op[p].name \in {"get", "iter"}
          /\ op[holder].name \in {"get", "iter"}
    /\ holder' = p
    /\ snap' = [snap EXCEPT ![p] = [maps |-> maps, made |-> made]]
    /\ pc' = [pc EXCEPT ![p] = "findmap"]
    /\ UNCHANGED <<mtx_made, made, maps, handle, name_mem, op, exc, out, cnt>>

\* Lock as a try_lock whose result is ignored
Lock_TryOnly(p) ==
    /\ pc[p] = "lock"
    /\ holder' = IF holder = NoProc THEN p ELSE holder
    /\ snap' = [snap EXCEPT ![p] = [maps |-> maps, made |-> made]]
    /\ pc' = [pc EXCEPT ![p] = "findmap"]
    /\ UNCHANGED <<mtx_made, made, maps, handle, name_mem, op, exc, out, cnt>>

\* Lock that takes over a mutex whose holder has died
Lock_Recover(p) ==
    /\ pc[p] = "lock"
    /\ \/ holder = NoProc
       \/ holder # NoProc /\ pc[holder] = "dead"
    /\ holder' = p
    /\ snap' = [snap EXCEPT ![p] = [maps |-> maps, made |-> made]]
    /\ pc' = [pc EXCEPT ![p] = "findmap"]
    /\ UNCHANGED <<mtx_made, made, maps, handle, name_mem, op, exc, out, cnt>>

\* scoped_lock<interprocess_sharable_mutex> lock(*mtx): exclusive, blocking,
\* without timeout
Lock(p) ==
    /\ pc[p] = "lock"
    /\ holder = NoProc
    /\ holder' = p
    /\ snap' = [snap EXCEPT ![p] = [maps |-> maps, made |-> made]]
    /\ pc' = [pc EXCEPT ![p] = "findmap"]
    /\ UNCHANGED <<mtx_made, made, maps, handle, name_mem, op, exc, out, cnt>>

\* shm.find_or_construct<ShmMap>(this->map_name)(...): reads the name through
\* the stored pointer and allocates an empty map when none has that name
FindMap(p) ==
    /\ pc[p] = "findmap"
    /\ IF name_mem[p] \in made \/ Free >= MapObjCost
       THEN /\ made' = made \cup {name_mem[p]}
            /\ pc' = [pc EXCEPT ![p] = "body"]
            /\ UNCHANGED exc
       ELSE /\ Throw(p, "bad_alloc")
            /\ UNCHANGED made
    /\ UNCHANGED <<mtx_made, holder, maps, handle, name_mem, op, out, cnt,
                   snap>>

\* set, first statement: shm_map->erase(ShmKeyType{key, ...}); the temporary
\* key is allocated in the segment
SetErase(p) ==
    /\ pc[p] = "body" /\ op[p].name = "set"
    /\ IF Free >= Len(op[p].key)
       THEN /\ maps' = [maps EXCEPT ![name_mem[p]] = EraseKey(@, op[p].key)]
            /\ pc' = [pc EXCEPT ![p] = "insert"]
            /\ UNCHANGED exc
       ELSE /\ Throw(p, "bad_alloc")
            /\ UNCHANGED maps
    /\ UNCHANGED <<mtx_made, holder, made, handle, name_mem, op, out, cnt,
                   snap>>

\* set whose insert adds the entry to the map as it was before the erase,
\* without looking for the key
SetInsert_KeepsOldEntry(p) ==
    /\ pc[p] = "insert"
    /\ IF Free >= EntryCost(op[p].key, op[p].val)
       THEN /\ maps' = [maps EXCEPT ![name_mem[p]] =
                           Append(snap[p].maps[name_mem[p]],
                                  <<op[p].key, op[p].val>>)]
            /\ pc' = [pc EXCEPT ![p] = "ret"]
            /\ UNCHANGED exc
       ELSE /\ Throw(p, "bad_alloc")
            /\ UNCHANGED maps
    /\ UNCHANGED <<mtx_made, holder, made, handle, name_mem, op, out, cnt,
                   snap>>

\* set, second statement: shm_map->insert(ValueType(key, value)); key, value
\* and node are allocated in the segment
SetInsert(p) ==
    /\ pc[p] = "insert"
    /\ IF Free >= EntryCost(op[p].key, op[p].val)
       THEN /\ \E m \in InsertSet(maps[name_mem[p]], op[p].key, op[p].val) :
                   maps' = [maps EXCEPT ![name_mem[p]] = m]
            /\ pc' = [pc EXCEPT ![p] = "ret"]
            /\ UNCHANGED exc
       ELSE /\ Throw(p, "bad_alloc")
            /\ UNCHANGED maps
    /\ UNCHANGED <<mtx_made, holder, made, handle, name_mem, op, out, cnt,
                   snap>>

\* get: find the key and copy f->second out of the segment, or throw KeyError
GetBody(p) ==
    /\ pc[p] = "body" /\ op[p].name = "get"
    /\ IF Free < Len(op[p].key)
       THEN /\ Throw(p, "bad_alloc")
            /\ UNCHANGED out
       ELSE IF HasKey(maps[name_mem[p]], op[p].key)
       THEN /\ out' = [out EXCEPT ![p].val = ValueAt(maps[name_mem[p]], op[p].key)]
            /\ pc' = [pc EXCEPT ![p] = "ret"]
            /\ UNCHANGED exc
       ELSE /\ Throw(p, "KeyError")
            /\ UNCHANGED out
    /\ UNCHANGED <<mtx_made, holder, made, maps, handle, name_mem, op, cnt,
                   snap>>

\* erase: shm_map->erase(ShmKeyType{key, ...})
EraseBody(p) ==
    /\ pc[p] = "body" /\ op[p].name = "erase"
    /\ IF Free >= Len(op[p].key)
       THEN /\ maps' = [maps EXCEPT ![name_mem[p]] = EraseKey(@, op[p].key)]
            /\ pc' = [pc EXCEPT ![p] = "ret"]
            /\ UNCHANGED exc
       ELSE /\ Throw(p, "bad_alloc")
            /\ UNCHANGED maps
    /\ UNCHANGED <<mtx_made, holder, made, handle, name_mem, op, out, cnt,
                   snap>>

\* clear: shm_map->clear()
ClearBody(p) ==
    /\ pc[p] = "body" /\ op[p].name = "clear"
    /\ maps' = [maps EXCEPT ![name_mem[p]] = <<>>]
    /\ pc' = [pc EXCEPT ![p] = "ret"]
    /\ UNCHANGED <<mtx_made, holder, made, handle, name_mem, op, exc, out,
                   cnt, snap>>

\* what iter(pos) can produce on the entries m: f->second after advance(f, pos)
\* when pos is inside the map, StopIteration when f reaches end(); advancing
\* past end() is undefined, and may read as end() or as some node
IterOutcomes(m, pos) ==
    IF pos < Len(m) THEN {[e |-> "none", v |-> m[pos + 1][2]]}
    ELSE IF pos = Len(m) THEN {[e |-> "StopIteration", v |-> ""]}
    ELSE {[e |-> "StopIteration", v |-> ""], [e |-> "none", v |-> Junk]}

\* iter: begin(), advance(f, pos), then return f->second or throw StopIteration
IterBody(p) ==
    /\ pc[p] = "body" /\ op[p].name = "iter"
    /\ \E r \in IterOutcomes(maps[name_mem[p]], op[p].pos) :
          /\ exc' = [exc EXCEPT ![p] = r.e]
          /\ out' = [out EXCEPT ![p].val = r.v]
    /\ pc' = [pc EXCEPT ![p] = "ret"]
    /\ UNCHANGED <<mtx_made, holder, made, maps, handle, name_mem, op, cnt,
                   snap>>

\* iter: advance(f, pos) past end() dereferences a null node pointer; the
\* process dies inside the locked body
IterFault(p) ==
    /\ pc[p] = "body" /\ op[p].name = "iter"
    /\ op[p].pos > Len(maps[name_mem[p]])
    /\ pc' = [pc EXCEPT ![p] = "dead"]
    /\ op' = [op EXCEPT ![p] = NoOp]
    /\ snap' = [snap EXCEPT ![p] = NoSnap]
    /\ UNCHANGED <<mtx_made, holder, made, maps, handle, name_mem, exc, out,
                   cnt>>

\* ReadSeg with size() counting the entries of the handle's map
ReadSeg_CountsEntries(p) ==
    /\ pc[p] = "read"
    /\ out' = [out EXCEPT ![p].num = IF op[p].name = "size"
                                     THEN Len(maps[name_mem[p]]) ELSE Free]
    /\ pc' = [pc EXCEPT ![p] = "ret"]
    /\ UNCHANGED <<mtx_made, holder, made, maps, handle, name_mem, op, exc,
                   cnt, snap>>

\* size() and free(): read the segment header; no mutex is looked up or taken
ReadSeg(p) ==
    /\ pc[p] = "read"
    /\ out' = [out EXCEPT ![p].num = IF op[p].name = "size" THEN seg_size ELSE Free]
    /\ pc' = [pc EXCEPT ![p] = "ret"]
    /\ UNCHANGED <<mtx_made, holder, made, maps, handle, name_mem, op, exc,
                   cnt, snap>>

\* what the wrapper method gives its caller for the C++ outcome: every C++
\* exception reaches Python as RuntimeError, which __getitem__ and
\* __delitem__ turn into KeyError and the generator into its end; the bytes
\* returned are decoded, in __getitem__ after the try statement and in
\* __iter__ inside it, where `except RuntimeError: break` is in force
PyResult(p) ==
    IF exc[p] = "none"
    THEN (IF op[p].name \in {"get", "iter"}
          THEN LET d == Loads(codec, out[p].val)
               IN  IF d.err = "none" THEN "value"
                   ELSE IF op[p].name = "iter" /\ d.err \in RuntimeErrors
                        THEN "end"
                   ELSE d.err
          ELSE IF op[p].name \in UnlockedOps THEN "number" ELSE "ok")
    ELSE (IF op[p].name \in {"get", "erase"} THEN "KeyError"
          ELSE IF op[p].name = "iter" THEN "end"
          ELSE "RuntimeError")

\* Return releasing the mutex only when the call ends without an exception
Return_KeepsLockOnThrow(p) ==
    /\ pc[p] = "ret"
    /\ holder' = IF holder = p /\ exc[p] = "none" THEN NoProc ELSE holder
    /\ cnt' = [cnt EXCEPT ![p] = IF op[p].name # "iter" THEN @
                                  ELSE IF PyResult(p) = "value" THEN @ + 1
                                  ELSE 0]
    /\ pc' = [pc EXCEPT ![p] = "idle"]
    /\ op' = [op EXCEPT ![p] = NoOp]
    /\ exc' = [exc EXCEPT ![p] = "none"]
    /\ out' = [out EXCEPT ![p] = NoOut]
    /\ snap' = [snap EXCEPT ![p] = NoSnap]
    /\ UNCHANGED <<mtx_made, made, maps, handle, name_mem>>

\* Return keeping the mutex for the generator while the traversal goes on
Return_HoldsInTraversal(p) ==
    /\ pc[p] = "ret"
    /\ holder' = IF holder = p /\ ~(op[p].name = "iter" /\ PyResult(p) = "value")
                 THEN NoProc ELSE holder
    /\ cnt' = [cnt EXCEPT ![p] = IF op[p].name # "iter" THEN @
                                  ELSE IF PyResult(p) = "value" THEN @ + 1
                                  ELSE 0]
    /\ pc' = [pc EXCEPT ![p] = "idle"]
    /\ op' = [op EXCEPT ![p] = NoOp]
    /\ exc' = [exc EXCEPT ![p] = "none"]
    /\ out' = [out EXCEPT ![p] = NoOut]
    /\ snap' = [snap EXCEPT ![p] = NoSnap]
    /\ UNCHANGED <<mtx_made, made, maps, handle, name_mem>>

\* Return keeping the mutex when the call ends with KeyError or StopIteration
Return_KeepsLockOnMiss(p) ==
    /\ pc[p] = "ret"
    /\ holder' = IF holder = p /\ exc[p] \notin {"KeyError", "StopIteration"}
                 THEN NoProc ELSE holder
    /\ cnt' = [cnt EXCEPT ![p] = IF op[p].name # "iter" THEN @
                                  ELSE IF PyResult(p) = "value" THEN @ + 1
                                  ELSE 0]
    /\ pc' = [pc EXCEPT ![p] = "idle"]
    /\ op' = [op EXCEPT ![p] = NoOp]
    /\ exc' = [exc EXCEPT ![p] = "none"]
    /\ out' = [out EXCEPT ![p] = NoOut]
    /\ snap' = [snap EXCEPT ![p] = NoSnap]
    /\ UNCHANGED <<mtx_made, made, maps, handle, name_mem>>

\* exit of the call: the scoped_lock destructor releases the mutex if this
\* call holds it, and the wrapper hands the result to the caller
Return(p) ==
    /\ pc[p] = "ret"
    /\ holder' = IF holder = p THEN NoProc ELSE holder
    /\ cnt' = [cnt EXCEPT ![p] = IF op[p].name # "iter" THEN @
                                  ELSE IF PyResult(p) = "value" THEN @ + 1
                                  ELSE 0]
    /\ pc' = [pc EXCEPT ![p] = "idle"]
    /\ op' = [op EXCEPT ![p] = NoOp]
    /\ exc' = [exc EXCEPT ![p] = "none"]
    /\ out' = [out EXCEPT ![p] = NoOut]
    /\ snap' = [snap EXCEPT ![p] = NoSnap]
    /\ UNCHANGED <<mtx_made, made, maps, handle, name_mem>>

\* a process dies inside a call; nothing releases a mutex it holds
Crash(p) ==
    /\ pc[p] \notin {"idle", "dead"}
    /\ pc' = [pc EXCEPT ![p] = "dead"]
    /\ op' = [op EXCEPT ![p] = NoOp]
    /\ exc' = [exc EXCEPT ![p] = "none"]
    /\ out' = [out EXCEPT ![p] = NoOut]
    /\ snap' = [snap EXCEPT ![p] = NoSnap]
    /\ UNCHANGED <<mtx_made, holder, made, maps, handle, name_mem, cnt>>

(* ------------------- the calls as sequential code --------------------- *)

\* What one BoostHashMap call gives when its statements run without any other
\* process in between: the exceptions, returned bytes and segment contents
\* that call o, looking up map name n, can produce from the contents s of a
\* segment of sz bytes.
OutcomesIn(sz, o, n, s) ==
    LET R(e, v, ms, md) == [exc |-> e, val |-> v, maps |-> ms, made |-> md]
        md == s.made \cup {n}
        m == s.maps[n]
        with(x) == [s.maps EXCEPT ![n] = x]
        erased == EraseKey(m, o.key)
    IN  IF n \notin s.made /\ FreeIn(sz, TRUE, s.made, s.maps) < MapObjCost
        THEN {R("bad_alloc", "", s.maps, s.made)}
        ELSE IF o.name = "clear"
        THEN {R("none", "", with(<<>>), md)}
        ELSE IF o.name = "iter"
        THEN {R(r.e, r.v, s.maps, md) : r \in IterOutcomes(m, o.pos)}
        ELSE IF FreeIn(sz, TRUE, md, s.maps) < Len(o.key)
        THEN {R("bad_alloc", "", s.maps, md)}
        ELSE IF o.name = "get"
        THEN (IF HasKey(m, o.key)
              THEN {R("none", ValueAt(m, o.key), s.maps, md)}
              ELSE {R("KeyError", "", s.maps, md)})
        ELSE IF o.name = "erase"
        THEN {R("none", "", with(erased), md)}
        ELSE IF FreeIn(sz, TRUE, md, with(erased)) < EntryCost(o.key, o.val)
        THEN {R("bad_alloc", "", with(erased), md)}
        ELSE {R("none", "", with(x), md) : x \in InsertSet(erased, o.key, o.val)}

\* the same in the segment the name denotes
AtomicOutcomes(o, n, s) == OutcomesIn(seg_size, o, n, s)

(* --------------------------- specifications --------------------------- *)

\* whether a call o changes what key k maps to
Affects(o, k) == o.name = "clear" \/ (o.name \in {"set", "erase"} /\ o.key = k)

\* q is inside a mutating call on the map name of Writer's handle, about k
Pending(q, k) ==
    /\ pc[q] \notin {"idle", "dead"}
    /\ handle[q] = handle[Writer]
    /\ Affects(op[q], k)

\* History of the calls made on the map name of Writer's handle, after a step
\* of p: a key maps to the value of Writer's latest completed set, is absent
\* after Writer's completed erase or clear, and is unknown once a call about it
\* failed or died, or while another process is in a mutating call about it.
AbsAfter(p) ==
    LET o == IF pc[p] = "idle" THEN op'[p] ELSE op[p]
        returns == pc[p] = "ret" /\ pc'[p] = "idle"
        dies == pc'[p] = "dead"
    IN  [k \in Keys |->
            IF ~(handle[p] = handle[Writer] /\ Affects(o, k)) THEN abs[k]
            ELSE IF p # Writer THEN "unknown"
            ELSE IF dies THEN "unknown"
            ELSE IF ~returns THEN abs[k]
            ELSE IF exc[p] # "none" \/ (\E q \in Procs \ {p} : Pending(q, k))
            THEN "unknown"
            ELSE IF o.name = "set" THEN o.val ELSE "absent"]

\* the step of p is recorded in the history
Hist(p) == abs' = AbsAfter(p) /\ UNCHANGED <<seg_size, att, life, trav, wrap, lruv,
                 orphan>>

\* the history is not recorded
Quiet == UNCHANGED <<abs, seg_size, att, life, trav, wrap, lruv, orphan>>

Next ==
    \E p \in Procs :
        \/ \E k \in Keys, v \in Values : SetItem(p, k, v) /\ Quiet
        \/ \E k \in Keys : GetItem(p, k) /\ Quiet
        \/ \E k \in Keys : DelItem(p, k) /\ Quiet
        \/ \E fresh \in BOOLEAN : IterNext(p, fresh) /\ Quiet
        \/ Clear(p) /\ Quiet
        \/ Size(p) /\ Quiet
        \/ FreeBytes(p) /\ Quiet
        \/ \E n \in MapNames : Reuse(p, n) /\ Quiet
        \/ FindMtx(p) /\ Quiet
        \/ Lock(p) /\ Quiet
        \/ FindMap(p) /\ Quiet
        \/ SetErase(p) /\ Quiet
        \/ SetInsert(p) /\ Quiet
        \/ GetBody(p) /\ Quiet
        \/ EraseBody(p) /\ Quiet
        \/ IterBody(p) /\ Quiet
        \/ IterFault(p) /\ Quiet
        \/ ClearBody(p) /\ Quiet
        \/ ReadSeg(p) /\ Quiet
        \/ Return(p) /\ Quiet
        \/ Crash(p) /\ Quiet

\* Every call, step, fault and crash of every process; abs is not recorded.
Spec == Init /\ [][Next]_vars

\* One process writes and reads, the others only read: the calls of the
\* scenarios about what a get observes, with the history abs recorded.
NextHist ==
    \E p \in Procs :
        \/ \E k \in Keys, v \in Values : p = Writer /\ SetItem(p, k, v) /\ Hist(p)
        \/ \E k \in Keys : p = Writer /\ DelItem(p, k) /\ Hist(p)
        \/ p = Writer /\ Clear(p) /\ Hist(p)
        \/ \E k \in Keys : GetItem(p, k) /\ Hist(p)
        \/ \E n \in MapNames : Reuse(p, n) /\ Hist(p)
        \/ FindMtx(p) /\ Hist(p)
        \/ Lock(p) /\ Hist(p)
        \/ FindMap(p) /\ Hist(p)
        \/ SetErase(p) /\ Hist(p)
        \/ SetInsert(p) /\ Hist(p)
        \/ GetBody(p) /\ Hist(p)
        \/ EraseBody(p) /\ Hist(p)
        \/ ClearBody(p) /\ Hist(p)
        \/ Return(p) /\ Hist(p)

SpecHist == Init /\ [][NextHist]_vars

\* the keys of the entries m
KeysOf(m) == {m[i][1] : i \in 1..Len(m)}

\* The traversal of Reader after a step of p. A call of iter(0) begins a
\* traversal; the call that ends the generator ends it; in between, the body of
\* each call adds the key of the entry it returns, and every step of any
\* process is compared with the map the handle of Reader names.
TravAfter(p) ==
    LET hn == handle[Reader]
        mine == p = Reader /\ (IF pc[p] = "idle" THEN op'[p] ELSE op[p]).name = "iter"
        begins == mine /\ pc[p] = "idle" /\ op'[p].pos = 0
        body == mine /\ pc[p] = "body" /\ pc'[p] = "ret"
        ends == mine /\ pc[p] = "ret" /\ pc'[p] = "idle" /\ PyResult(p) = "end"
        m == maps[name_mem[Reader]]
        key == IF op[Reader].pos < Len(m) THEN m[op[Reader].pos + 1][1] ELSE Junk
    IN  IF begins
        THEN [on |-> TRUE, got |-> <<>>, kept |-> KeysOf(maps[hn]),
              calm |-> TRUE, named |-> TRUE]
        ELSE IF ends \/ ~trav.on THEN NoTrav
        ELSE [on |-> TRUE,
              got |-> IF body /\ exc'[p] = "none" THEN Append(trav.got, key)
                      ELSE trav.got,
              kept |-> {k \in trav.kept : HasKey(maps'[hn], k)},
              calm |-> trav.calm /\ maps'[hn] = maps[hn],
              named |-> trav.named /\ (body => name_mem[p] = hn)]

\* the step of p is recorded in the traversal
Trav(p) == trav' = TravAfter(p) /\ UNCHANGED <<abs, seg_size, att, life, wrap, lruv,
                 orphan>>

\* One process traverses while the other sets, erases and clears.
NextIter ==
    \E p \in Procs :
        \/ \E k \in Keys, v \in Values : p = Writer /\ SetItem(p, k, v) /\ Trav(p)
        \/ \E k \in Keys : p = Writer /\ DelItem(p, k) /\ Trav(p)
        \/ p = Writer /\ Clear(p) /\ Trav(p)
        \/ \E fresh \in BOOLEAN : p = Reader /\ IterNext(p, fresh) /\ Trav(p)
        \/ \E n \in MapNames : Reuse(p, n) /\ Trav(p)
        \/ FindMtx(p) /\ Trav(p)
        \/ Lock(p) /\ Trav(p)
        \/ FindMap(p) /\ Trav(p)
        \/ SetErase(p) /\ Trav(p)
        \/ SetInsert(p) /\ Trav(p)
        \/ EraseBody(p) /\ Trav(p)
        \/ ClearBody(p) /\ Trav(p)
        \/ IterBody(p) /\ Trav(p)
        \/ Return(p) /\ Trav(p)

SpecIter == Init /\ [][NextIter]_vars

\* no other process is inside a call
Alone(p) == \A q \in Procs \ {p} : pc[q] = "idle"

\* a step of a call made through a handle on the named segment, no other
\* call being under way
Solo(p) == Attached(p) /\ Alone(p) /\ Quiet

\* the start of a set, erase or clear through such a handle: no handle has
\* the segment as it found it, and a set ends the fresh phase
SoloMut(p) ==
    /\ Attached(p) /\ Alone(p)
    /\ att' = [q \in Procs |-> IF att[q] = "found" THEN "attached" ELSE att[q]]
    /\ life' = IF op'[p].name = "set" THEN OldLife ELSE life
    /\ UNCHANGED <<abs, seg_size, trav, wrap, lruv, orphan>>

\* a constructor, a release or a shmfree of p, made between the calls
Life(p) == Alone(p) /\ UNCHANGED <<abs, trav, wrap, lruv, orphan>>

\* before any constructor has run: no segment, no handle
InitSeg ==
    /\ mtx_made = FALSE
    /\ holder = NoProc
    /\ made = {}
    /\ maps = [n \in MapNames |-> <<>>]
    /\ handle = [p \in Procs |-> "default"]
    /\ name_mem = handle
    /\ pc = [p \in Procs |-> "idle"]
    /\ op = [p \in Procs |-> NoOp]
    /\ exc = [p \in Procs |-> "none"]
    /\ out = [p \in Procs |-> NoOut]
    /\ cnt = [p \in Procs |-> 0]
    /\ snap = [p \in Procs |-> NoSnap]
    /\ abs = [k \in Keys |-> "absent"]
    /\ seg_size = 0
    /\ att = [p \in Procs |-> "none"]
    /\ life = OldLife
    /\ orphan = NoOrphan
    /\ codec = "raw"
    /\ py = [p \in Procs |-> NoPy]
    /\ pydict = NoDict
    /\ lru = NewCache(1)
    /\ thr = [t \in Threads |-> NoCall]
    /\ used = NoUse
    /\ trav = NoTrav

NextSeg ==
    \E p \in Procs :
        \/ \E n \in MapNames, size \in Sizes : Open(p, n, size) /\ Life(p)
        \/ Drop(p) /\ Life(p)
        \/ Destroy(p) /\ Life(p)
        \/ \E k \in Keys, v \in Values : SetItem(p, k, v) /\ SoloMut(p)
        \/ \E k \in Keys : GetItem(p, k) /\ Solo(p)
        \/ \E k \in Keys : DelItem(p, k) /\ SoloMut(p)
        \/ IterNext(p, TRUE) /\ Solo(p)
        \/ Clear(p) /\ SoloMut(p)
        \/ Size(p) /\ Solo(p)
        \/ FreeBytes(p) /\ Solo(p)
        \/ \E n \in MapNames : Attached(p) /\ Reuse(p, n) /\ Quiet
        \/ FindMtx(p) /\ Solo(p)
        \/ Lock(p) /\ Solo(p)
        \/ FindMap(p) /\ Solo(p)
        \/ SetErase(p) /\ Solo(p)
        \/ SetInsert(p) /\ Solo(p)
        \/ GetBody(p) /\ Solo(p)
        \/ EraseBody(p) /\ Solo(p)
        \/ IterBody(p) /\ Solo(p)
        \/ ClearBody(p) /\ Solo(p)
        \/ ReadSeg(p) /\ Solo(p)
        \/ Return(p) /\ Solo(p)

\* The life of the segment and of the handles: constructors, releases of
\* handles and shmfree, between calls that are made one at a time; a handle left
\* on a segment whose name was removed is only released.
SpecSeg == InitSeg /\ [][NextSeg]_vars

\* The calls of processes that never die, with the scheduling the mutex and the
\* operating system give: a call under way keeps taking steps, and a process
\* that keeps asking for the mutex gets it whenever it is free often enough.
NextLive ==
    \E p \in Procs :
        \/ \E k \in Keys, v \in Values : SetItem(p, k, v) /\ Quiet
        \/ \E k \in Keys : GetItem(p, k) /\ Quiet
        \/ \E k \in Keys : DelItem(p, k) /\ Quiet
        \/ \E fresh \in BOOLEAN : IterNext(p, fresh) /\ Quiet
        \/ Clear(p) /\ Quiet
        \/ Size(p) /\ Quiet
        \/ FreeBytes(p) /\ Quiet
        \/ \E n \in MapNames : Reuse(p, n) /\ Quiet
        \/ FindMtx(p) /\ Quiet
        \/ Lock(p) /\ Quiet
        \/ FindMap(p) /\ Quiet
        \/ SetErase(p) /\ Quiet
        \/ SetInsert(p) /\ Quiet
        \/ GetBody(p) /\ Quiet
        \/ EraseBody(p) /\ Quiet
        \/ IterBody(p) /\ Quiet
        \/ ClearBody(p) /\ Quiet
        \/ ReadSeg(p) /\ Quiet
        \/ Return(p) /\ Quiet

\* a step of p's call other than the acquisition of the mutex
Advance(p) ==
    /\ \/ FindMtx(p)
       \/ FindMap(p)
       \/ SetErase(p)
       \/ SetInsert(p)
       \/ GetBody(p)
       \/ EraseBody(p)
       \/ IterBody(p)
       \/ ClearBody(p)
       \/ ReadSeg(p)
       \/ Return(p)
    /\ Quiet

\* p's acquisition of the mutex
Acquire(p) == Lock(p) /\ Quiet

\* Under NextLive the name a handle was constructed with decides nothing: the
\* calls look up name_mem, which Reuse sets to any name; one choice is enough.
InitLive == Init /\ \A p \in Procs : handle[p] = "default"

FairSpec ==
    /\ InitLive
    /\ [][NextLive]_vars
    /\ \A p \in Procs : WF_vars(Advance(p)) /\ SF_vars(Acquire(p))

(* ---------------------- the serializing wrappers ---------------------- *)

\* Byte size of the segment the serializing handles share, two units a byte.
CodecSegSize == 16 * SegSize

\* the bytes a key can reach BoostHashMap as
KeyBytes == {Dumps(c, o).bytes : c \in Codecs, o \in PyKeys}

\* a wrapper method raising before it reaches the C++ call
PyRaise(p, ko, vo, e) ==
    /\ pc[p] = "idle"
    /\ py' = [py EXCEPT ![p] = [key |-> ko, val |-> vo, err |-> e]]
    /\ cnt' = [cnt EXCEPT ![p] = 0]
    /\ UNCHANGED <<mtx_made, holder, made, maps, handle, name_mem, pc, op, exc,
                   out, snap>>

\* the Python objects of a call that reaches the C++ call
PyArgs(p, ko, vo) == py' = [py EXCEPT ![p] = [key |-> ko, val |-> vo, err |-> "none"]]

\* __setitem__: dumps(key), dumps(value), then hashmap.set
PySetItem(p, ko, vo) ==
    LET k == Dumps(codec, ko)
        v == Dumps(codec, vo)
    IN  IF k.err # "none" THEN PyRaise(p, ko, vo, k.err)
        ELSE IF v.err # "none" THEN PyRaise(p, ko, vo, v.err)
        ELSE SetItem(p, k.bytes, v.bytes) /\ PyArgs(p, ko, vo)

\* __getitem__: dumps(key), then hashmap.get
PyGetItem(p, ko) ==
    LET k == Dumps(codec, ko)
    IN  IF k.err # "none" THEN PyRaise(p, ko, NoPy.val, k.err)
        ELSE GetItem(p, k.bytes) /\ PyArgs(p, ko, NoPy.val)

\* __delitem__: dumps(key), then hashmap.erase
PyDelItem(p, ko) ==
    LET k == Dumps(codec, ko)
    IN  IF k.err # "none" THEN PyRaise(p, ko, NoPy.val, k.err)
        ELSE DelItem(p, k.bytes) /\ PyArgs(p, ko, NoPy.val)

\* pydict after a step of p: a set that returns stores the value under the
\* value of its key, an erase that returns and a set that throws leave nothing
\* under it, a clear that returns leaves nothing
DictAfter(p) ==
    IF pc[p] = "ret" /\ pc'[p] = "idle"
    THEN LET k == py[p].key.val
             Older == [j \in KeyVals |-> [pydict[j] EXCEPT !.last = FALSE]]
         IN  CASE op[p].name = "set" /\ exc[p] = "none" ->
                    [Older EXCEPT ![k] = [val |-> py[p].val.val,
                                          bytes |-> op[p].val,
                                          key |-> op[p].key,
                                          last |-> TRUE]]
               [] op[p].name = "set" /\ exc[p] # "none" ->
                    [Older EXCEPT ![k] = Absent]
               [] op[p].name = "erase" /\ exc[p] = "none" ->
                    [Older EXCEPT ![k] = Absent]
               [] op[p].name = "clear" /\ exc[p] = "none" -> NoDict
               [] OTHER -> pydict
    ELSE pydict

\* frame of a wrapper method's entry, and of a step of the C++ call
Entry == UNCHANGED <<abs, seg_size, att, life, trav, codec, pydict, lruv,
                 orphan>>
Wrapped(p) ==
    /\ pydict' = DictAfter(p)
    /\ py' = IF pc'[p] = "idle" THEN [py EXCEPT ![p] = NoPy] ELSE py
    /\ UNCHANGED <<abs, seg_size, att, life, trav, codec, lruv, orphan>>

InitCodec ==
    /\ mtx_made = FALSE
    /\ holder = NoProc
    /\ made = {}
    /\ maps = [n \in MapNames |-> <<>>]
    /\ handle = [p \in Procs |-> "default"]
    /\ name_mem = handle
    /\ pc = [p \in Procs |-> "idle"]
    /\ op = [p \in Procs |-> NoOp]
    /\ exc = [p \in Procs |-> "none"]
    /\ out = [p \in Procs |-> NoOut]
    /\ cnt = [p \in Procs |-> 0]
    /\ snap = [p \in Procs |-> NoSnap]
    /\ abs = [k \in KeyBytes |-> "absent"]
    /\ seg_size = CodecSegSize
    /\ att = [p \in Procs |-> IF p = Writer THEN "created" ELSE "attached"]
    /\ life = OldLife
    /\ orphan = NoOrphan
    /\ codec \in Codecs
    /\ py = [p \in Procs |-> NoPy]
    /\ pydict = NoDict
    /\ lru = NewCache(1)
    /\ thr = [t \in Threads |-> NoCall]
    /\ used = NoUse
    /\ trav = NoTrav

NextCodec ==
    \E p \in {Writer} :
        \/ \E ko \in PyKeys, vo \in PyValues : PySetItem(p, ko, vo) /\ Entry
        \/ \E ko \in PyKeys : PyGetItem(p, ko) /\ Entry
        \/ \E ko \in PyKeys : PyDelItem(p, ko) /\ Entry
        \/ \E fresh \in BOOLEAN :
              IterNext(p, fresh) /\ PyArgs(p, NoPy.key, NoPy.val) /\ Entry
        \/ Clear(p) /\ PyArgs(p, NoPy.key, NoPy.val) /\ Entry
        \/ FindMtx(p) /\ Wrapped(p)
        \/ Lock(p) /\ Wrapped(p)
        \/ FindMap(p) /\ Wrapped(p)
        \/ SetErase(p) /\ Wrapped(p)
        \/ SetInsert(p) /\ Wrapped(p)
        \/ GetBody(p) /\ Wrapped(p)
        \/ EraseBody(p) /\ Wrapped(p)
        \/ IterBody(p) /\ Wrapped(p)
        \/ ClearBody(p) /\ Wrapped(p)
        \/ Return(p) /\ Wrapped(p)

\* One process using a handle of one of the three classes, its calls given
\* Python objects.
SpecCodec == InitCodec /\ [][NextCodec]_vars

(* ------------------------ steps of LRUCache calls --------------------- *)

\* the variables of the shared-memory map
hashv == <<mtx_made, holder, made, maps, handle, name_mem, pc, op, exc, out,
           cnt, snap, abs, seg_size, att, orphan, life, codec, py, pydict,
           trav>>

\* a pointer to a Node that exists
Valid(a) == a \in Addrs /\ lru.node[a].live

\* the process has not died on an invalid access
Alive == \A u \in Threads : thr[u].pc # "segv"

At(t, l) == Alive /\ thr[t].pc = l

\* a->f. Through a pointer to a deleted Node the access is undefined and finds
\* what the memory holds now (nothing, or the Node made there since); through
\* NULL it finds nothing of the cache.
Field(a, f) ==
    IF a \in Addrs THEN lru.node[a][f]
    ELSE IF f \in {"prev", "next"} THEN Null ELSE Junk

\* the nodes after a->f = x
Store(a, f, x) ==
    IF a \in Addrs THEN [lru.node EXCEPT ![a][f] = x] ELSE lru.node

\* the nodes after delete a: the memory goes back to the allocator, which
\* keeps nothing of the Node in it
Delete(a) ==
    IF a \in Addrs THEN [lru.node EXCEPT ![a] = NoNode] ELSE lru.node

\* the other outcome of an access through a pointer to no Node: the process
\* dies
Fault(t, a) ==
    /\ ~Valid(a)
    /\ thr' = [thr EXCEPT ![t].pc = "segv"]
    /\ UNCHANGED lru

\* LRU.__setitem__
LPut(t, k, v) ==
    /\ At(t, "idle")
    /\ thr' = [thr EXCEPT ![t] = [NoCall EXCEPT !.pc = "put_find",
                                   !.name = "put", !.key = k, !.value = v]]
    /\ UNCHANGED lru

\* LRU.__getitem__
LGetItem(t, k) ==
    /\ At(t, "idle")
    /\ thr' = [thr EXCEPT ![t] = [NoCall EXCEPT !.pc = "get_find",
                                   !.name = "getitem", !.key = k]]
    /\ UNCHANGED lru

\* LRU.get(key, default)
LGet(t, k) ==
    /\ At(t, "idle")
    /\ thr' = [thr EXCEPT ![t] = [NoCall EXCEPT !.pc = "get_find",
                                   !.name = "get", !.key = k]]
    /\ UNCHANGED lru

\* get whose KeyError no method of LRU turns into a default
GetFind_AlwaysRaises(t) ==
    /\ At(t, "get_find")
    /\ thr' = IF lru.pageMap[thr[t].key] = NoPage
              THEN [thr EXCEPT ![t].pc = "ret", ![t].res = "KeyError"]
              ELSE [thr EXCEPT ![t].pc = "get_val"]
    /\ UNCHANGED lru

\* get that looks the key up with pageMap[key], which indexes a key it misses
GetFind_IndexesKey(t) ==
    /\ At(t, "get_find")
    /\ thr' = IF lru.pageMap[thr[t].key] = NoPage
              THEN [thr EXCEPT ![t].pc = "ret",
                               ![t].res = IF thr[t].name = "getitem"
                                          THEN "KeyError" ELSE "default",
                               ![t].ret = IF thr[t].name = "getitem"
                                          THEN "" ELSE Default]
              ELSE [thr EXCEPT ![t].pc = "get_val"]
    /\ lru' = IF lru.pageMap[thr[t].key] = NoPage
              THEN [lru EXCEPT !.pageMap[thr[t].key] = Null] ELSE lru

\* get: if (pageMap.find(key) == pageMap.end()) throw KeyError(); the
\* exception reaches Python as RuntimeError, which __getitem__ turns into
\* KeyError and LRU.get into the default
GetFind(t) ==
    /\ At(t, "get_find")
    /\ thr' = IF lru.pageMap[thr[t].key] = NoPage
              THEN [thr EXCEPT ![t].pc = "ret",
                               ![t].res = IF thr[t].name = "getitem"
                                          THEN "KeyError" ELSE "default",
                               ![t].ret = IF thr[t].name = "getitem"
                                          THEN "" ELSE Default]
              ELSE [thr EXCEPT ![t].pc = "get_val"]
    /\ UNCHANGED lru

\* pageMap[key]: operator[] makes an entry holding NULL for a key that has none
Indexed(k) == IF lru.pageMap[k] = NoPage THEN Null ELSE lru.pageMap[k]
AfterIndex(k) == [lru.pageMap EXCEPT ![k] = Indexed(k)]

\* get: std::string val = pageMap[key]->value
GetVal(t) ==
    /\ At(t, "get_val")
    /\ \/ /\ thr' = [thr EXCEPT ![t].pc = "get_page",
                                ![t].val = Field(Indexed(thr[t].key), "value")]
          /\ lru' = [lru EXCEPT !.pageMap = AfterIndex(thr[t].key)]
       \/ Fault(t, Indexed(thr[t].key))

\* get: pageList->move_page_to_head(pageMap[key]), the argument
GetPage(t) ==
    /\ At(t, "get_page")
    /\ thr' = [thr EXCEPT ![t].pc = "mv_test",
                          ![t].page = Indexed(thr[t].key)]
    /\ lru' = [lru EXCEPT !.pageMap = AfterIndex(thr[t].key)]

\* what the method gives its caller once move_page_to_head or put is done
Done(t) ==
    [thr EXCEPT ![t].pc = "ret",
                ![t].res = IF thr[t].name = "put" THEN "ok" ELSE "value",
                ![t].ret = IF thr[t].name = "put" THEN "" ELSE thr[t].val]

\* move_page_to_head: if (page == front) return; if (page == rear)
MvTest(t) ==
    /\ At(t, "mv_test")
    /\ thr' = IF thr[t].page = lru.front THEN Done(t)
              ELSE IF thr[t].page = lru.rear
                   THEN [thr EXCEPT ![t].pc = "mv_rear1"]
              ELSE [thr EXCEPT ![t].pc = "mv_mid1"]
    /\ UNCHANGED lru

\* move_page_to_head: rear = rear->prev
MvRear1(t) ==
    /\ At(t, "mv_rear1")
    /\ \/ /\ lru' = [lru EXCEPT !.rear = Field(lru.rear, "prev")]
          /\ thr' = [thr EXCEPT ![t].pc = "mv_rear2"]
       \/ Fault(t, lru.rear)

\* move_page_to_head: rear->next = NULL
MvRear2(t) ==
    /\ At(t, "mv_rear2")
    /\ \/ /\ lru' = [lru EXCEPT !.node = Store(lru.rear, "next", Null)]
          /\ thr' = [thr EXCEPT ![t].pc = "mv_link1"]
       \/ Fault(t, lru.rear)

\* move_page_to_head: page->prev->next = page->next
MvMid1(t) ==
    /\ At(t, "mv_mid1")
    /\ LET page == thr[t].page
       IN  \/ /\ lru' = [lru EXCEPT !.node = Store(Field(page, "prev"), "next",
                                                   Field(page, "next"))]
              /\ thr' = [thr EXCEPT ![t].pc = "mv_mid2"]
           \/ Fault(t, page)
           \/ Fault(t, Field(page, "prev"))

\* move_page_to_head: page->next->prev = page->prev
MvMid2(t) ==
    /\ At(t, "mv_mid2")
    /\ LET page == thr[t].page
       IN  \/ /\ lru' = [lru EXCEPT !.node = Store(Field(page, "next"), "prev",
                                                   Field(page, "prev"))]
              /\ thr' = [thr EXCEPT ![t].pc = "mv_link1"]
           \/ Fault(t, page)
           \/ Fault(t, Field(page, "next"))

\* move_page_to_head: page->next = front
MvLink1(t) ==
    /\ At(t, "mv_link1")
    /\ \/ /\ lru' = [lru EXCEPT !.node = Store(thr[t].page, "next", lru.front)]
          /\ thr' = [thr EXCEPT ![t].pc = "mv_link2"]
       \/ Fault(t, thr[t].page)

\* move_page_to_head: page->prev = NULL
MvLink2(t) ==
    /\ At(t, "mv_link2")
    /\ \/ /\ lru' = [lru EXCEPT !.node = Store(thr[t].page, "prev", Null)]
          /\ thr' = [thr EXCEPT ![t].pc = "mv_link3"]
       \/ Fault(t, thr[t].page)

\* move_page_to_head: front->prev = page
MvLink3(t) ==
    /\ At(t, "mv_link3")
    /\ \/ /\ lru' = [lru EXCEPT !.node = Store(lru.front, "prev", thr[t].page)]
          /\ thr' = [thr EXCEPT ![t].pc = "mv_link4"]
       \/ Fault(t, lru.front)

\* move_page_to_head leaving front where it was
MvLink4_KeepsFront(t) ==
    /\ At(t, "mv_link4")
    /\ thr' = Done(t)
    /\ UNCHANGED lru

\* move_page_to_head: front = page; then the return of get or put
MvLink4(t) ==
    /\ At(t, "mv_link4")
    /\ lru' = [lru EXCEPT !.front = thr[t].page]
    /\ thr' = Done(t)

\* put: if (pageMap.find(key) != pageMap.end())
PutFind(t) ==
    /\ At(t, "put_find")
    /\ thr' = [thr EXCEPT ![t].pc = IF lru.pageMap[thr[t].key] # NoPage
                                    THEN "put_upd" ELSE "put_full"]
    /\ UNCHANGED lru

\* put leaving the value of a cached key as it is
PutUpd_KeepsValue(t) ==
    /\ At(t, "put_upd")
    /\ LET page == Indexed(thr[t].key)
       IN  \/ /\ lru' = [lru EXCEPT !.pageMap = AfterIndex(thr[t].key)]
              /\ thr' = [thr EXCEPT ![t].pc = "mv_test", ![t].page = page]
           \/ Fault(t, page)

\* put: pageMap[key]->value = value, and the argument of move_page_to_head
PutUpd(t) ==
    /\ At(t, "put_upd")
    /\ LET page == Indexed(thr[t].key)
       IN  \/ /\ lru' = [lru EXCEPT !.node = Store(page, "value", thr[t].value),
                                    !.pageMap = AfterIndex(thr[t].key)]
              /\ thr' = [thr EXCEPT ![t].pc = "mv_test", ![t].page = page]
           \/ Fault(t, page)

\* put that never finds the cache full
PutFull_NeverEvicts(t) ==
    /\ At(t, "put_full")
    /\ thr' = [thr EXCEPT ![t].pc = "add_new"]
    /\ UNCHANGED lru

\* put: if (size == capacity)
PutFull(t) ==
    /\ At(t, "put_full")
    /\ thr' = [thr EXCEPT ![t].pc = IF lru.size = lru.capacity
                                    THEN "ev_key" ELSE "add_new"]
    /\ UNCHANGED lru

\* put taking the key of the front page for the page to evict
EvKey_TakesFront(t) ==
    /\ At(t, "ev_key")
    /\ \/ /\ thr' = [thr EXCEPT ![t].pc = "ev_erase",
                                ![t].k = Field(lru.front, "key")]
          /\ UNCHANGED lru
       \/ Fault(t, lru.front)

\* put: std::string k = pageList->get_rear_page()->key
EvKey(t) ==
    /\ At(t, "ev_key")
    /\ \/ /\ thr' = [thr EXCEPT ![t].pc = "ev_erase",
                                ![t].k = Field(lru.rear, "key")]
          /\ UNCHANGED lru
       \/ Fault(t, lru.rear)

\* put: pageMap.erase(k)
EvErase(t) ==
    /\ At(t, "ev_erase")
    /\ lru' = IF thr[t].k \in LKeys
              THEN [lru EXCEPT !.pageMap[thr[t].k] = NoPage] ELSE lru
    /\ thr' = [thr EXCEPT ![t].pc = "rm_test"]

\* remove_rear_page: if (isEmpty()) return; if (front == rear)
RmTest(t) ==
    /\ At(t, "rm_test")
    /\ thr' = [thr EXCEPT ![t].pc = IF lru.rear = Null THEN "ev_dec"
                                    ELSE IF lru.front = lru.rear THEN "rm_one"
                                    ELSE "rm_many1"]
    /\ UNCHANGED lru

\* remove_rear_page: delete rear; front = rear = NULL
RmOne(t) ==
    /\ At(t, "rm_one")
    /\ \/ /\ lru' = [lru EXCEPT !.node = Delete(lru.rear),
                                !.front = Null, !.rear = Null]
          /\ thr' = [thr EXCEPT ![t].pc = "ev_dec"]
       \/ lru.rear # Null /\ Fault(t, lru.rear)

\* remove_rear_page: Node *temp = rear; rear = rear->prev
RmMany1(t) ==
    /\ At(t, "rm_many1")
    /\ \/ /\ lru' = [lru EXCEPT !.rear = Field(lru.rear, "prev")]
          /\ thr' = [thr EXCEPT ![t].pc = "rm_many2", ![t].temp = lru.rear]
       \/ Fault(t, lru.rear)

\* remove_rear_page that leaves the new rear pointing to the old one
RmMany2_Skips(t) ==
    /\ At(t, "rm_many2")
    /\ thr' = [thr EXCEPT ![t].pc = "rm_many3"]
    /\ UNCHANGED lru

\* remove_rear_page: rear->next = NULL
RmMany2(t) ==
    /\ At(t, "rm_many2")
    /\ \/ /\ lru' = [lru EXCEPT !.node = Store(lru.rear, "next", Null)]
          /\ thr' = [thr EXCEPT ![t].pc = "rm_many3"]
       \/ Fault(t, lru.rear)

\* remove_rear_page that deletes the Node rear points to now
RmMany3_DeletesRear(t) ==
    /\ At(t, "rm_many3")
    /\ \/ /\ lru' = [lru EXCEPT !.node = Delete(lru.rear)]
          /\ thr' = [thr EXCEPT ![t].pc = "ev_dec"]
       \/ lru.rear # Null /\ Fault(t, lru.rear)

\* remove_rear_page: delete temp
RmMany3(t) ==
    /\ At(t, "rm_many3")
    /\ \/ /\ lru' = [lru EXCEPT !.node = Delete(thr[t].temp)]
          /\ thr' = [thr EXCEPT ![t].pc = "ev_dec"]
       \/ thr[t].temp # Null /\ Fault(t, thr[t].temp)

\* put: size--
EvDec(t) ==
    /\ At(t, "ev_dec")
    /\ lru' = [lru EXCEPT !.size = @ - 1]
    /\ thr' = [thr EXCEPT ![t].pc = "add_new"]

\* add_page_to_head: Node *page = new Node(key, value), at an address that
\* holds no Node
AddNew(t) ==
    /\ At(t, "add_new")
    /\ \E a \in Addrs :
          /\ ~lru.node[a].live
          /\ \A b \in Addrs : ~lru.node[b].live => a <= b
          /\ lru' = [lru EXCEPT !.node[a] = [key |-> thr[t].key,
                                             value |-> thr[t].value,
                                             prev |-> Null, next |-> Null,
                                             live |-> TRUE]]
          /\ thr' = [thr EXCEPT ![t].pc = "add_test", ![t].page = a]

\* add_page_to_head: if (!front && !rear) front = rear = page
AddTest(t) ==
    /\ At(t, "add_test")
    /\ IF lru.front = Null /\ lru.rear = Null
       THEN /\ lru' = [lru EXCEPT !.front = thr[t].page, !.rear = thr[t].page]
            /\ thr' = [thr EXCEPT ![t].pc = "add_size"]
       ELSE /\ thr' = [thr EXCEPT ![t].pc = "add_link1"]
            /\ UNCHANGED lru

\* add_page_to_head: page->next = front
AddLink1(t) ==
    /\ At(t, "add_link1")
    /\ \/ /\ lru' = [lru EXCEPT !.node = Store(thr[t].page, "next", lru.front)]
          /\ thr' = [thr EXCEPT ![t].pc = "add_link2"]
       \/ Fault(t, thr[t].page)

\* add_page_to_head leaving front->prev as it was
AddLink2_Skips(t) ==
    /\ At(t, "add_link2")
    /\ thr' = [thr EXCEPT ![t].pc = "add_link3"]
    /\ UNCHANGED lru

\* add_page_to_head: front->prev = page
AddLink2(t) ==
    /\ At(t, "add_link2")
    /\ \/ /\ lru' = [lru EXCEPT !.node = Store(lru.front, "prev", thr[t].page)]
          /\ thr' = [thr EXCEPT ![t].pc = "add_link3"]
       \/ Fault(t, lru.front)

\* add_page_to_head: front = page
AddLink3(t) ==
    /\ At(t, "add_link3")
    /\ lru' = [lru EXCEPT !.front = thr[t].page]
    /\ thr' = [thr EXCEPT ![t].pc = "add_size"]

\* put that forgets size++
AddSize_Skips(t) ==
    /\ At(t, "add_size")
    /\ thr' = [thr EXCEPT ![t].pc = "add_map"]
    /\ UNCHANGED lru

\* put: size++
AddSize(t) ==
    /\ At(t, "add_size")
    /\ lru' = [lru EXCEPT !.size = @ + 1]
    /\ thr' = [thr EXCEPT ![t].pc = "add_map"]

\* put: pageMap[key] = page; then the return of put
AddMap(t) ==
    /\ At(t, "add_map")
    /\ lru' = [lru EXCEPT !.pageMap[thr[t].key] = thr[t].page]
    /\ thr' = Done(t)

\* the method of LRU returns to its caller
LReturn(t) ==
    /\ At(t, "ret")
    /\ thr' = [thr EXCEPT ![t] = NoCall]
    /\ UNCHANGED lru

(* --------------------------- ~LRUCache -------------------------------- *)

\* the first position of MapOrder, from i on, whose key pageMap has an entry
\* for; one past the last position if there is none: pageMap.end()
RECURSIVE EntryFrom(_)
EntryFrom(i) ==
    IF i > Len(MapOrder) THEN i
    ELSE IF lru.pageMap[MapOrder[i]] # NoPage THEN i
    ELSE EntryFrom(i + 1)

\* delete of the LRUCache by the owner of it, between two calls:
\* i1 = pageMap.begin()
DtorBegin(t) ==
    /\ At(t, "idle")
    /\ thr' = [thr EXCEPT ![t] = [NoCall EXCEPT !.pc = "dt_test",
                                   !.name = "dtor", !.i1 = EntryFrom(1)]]
    /\ UNCHANGED lru

\* ~LRUCache: i1 != pageMap.end()
DtorTest(t) ==
    /\ At(t, "dt_test")
    /\ thr' = [thr EXCEPT ![t].pc = IF thr[t].i1 > Len(MapOrder)
                                    THEN "dt_list" ELSE "dt_node"]
    /\ UNCHANGED lru

\* ~LRUCache: delete i1->second; i1++
DtorNode(t) ==
    /\ At(t, "dt_node")
    /\ LET a == lru.pageMap[MapOrder[thr[t].i1]]
       IN  \/ /\ lru' = [lru EXCEPT !.node = Delete(a)]
              /\ thr' = [thr EXCEPT ![t].pc = "dt_test",
                                    ![t].i1 = EntryFrom(thr[t].i1 + 1)]
           \/ a # Null /\ Fault(t, a)

\* ~LRUCache: delete pageList, and the end of the members: no list, no map
DtorList(t) ==
    /\ At(t, "dt_list")
    /\ lru' = [lru EXCEPT !.front = Null, !.rear = Null, !.size = 0,
                          !.pageMap = [k \in LKeys |-> NoPage]]
    /\ thr' = [thr EXCEPT ![t].pc = "gone"]

(* ------------------- the cache as sequential code --------------------- *)

\* the addresses met from a by following the field f, n of them at most
RECURSIVE Walk(_, _, _)
Walk(a, f, n) ==
    IF a \notin Addrs \/ n = 0 THEN <<>>
    ELSE <<a>> \o Walk(lru.node[a][f], f, n - 1)

\* the list from front to rear, and from rear to front; a walk of more nodes
\* than there are addresses is a walk round a cycle
FromFront == Walk(lru.front, "next", Cardinality(Addrs) + 1)
FromRear == Walk(lru.rear, "prev", Cardinality(Addrs) + 1)

\* the keys on the list, from front to rear
ListKeys == [i \in 1..Len(FromFront) |-> lru.node[FromFront[i]].key]

\* the keys pageMap has an entry for
MapKeys == {k \in LKeys : lru.pageMap[k] # NoPage}

\* the value the cache holds for the key k: that of the node pageMap has for k
Cached(k) == Field(lru.pageMap[k], "value")

\* the list holds the keys of s in the order of s, pageMap has an entry for
\* these keys and no other, and each has the value val gives it
Holds(s, val) ==
    /\ ListKeys = s
    /\ MapKeys = {s[i] : i \in 1..Len(s)}
    /\ \A k \in MapKeys : Cached(k) = val[k]

\* s from its last element to its first
Reverse(s) == [i \in 1..Len(s) |-> s[Len(s) + 1 - i]]

\* no element of s is in it twice
OnceEach(s) == \A i, j \in 1..Len(s) : s[i] = s[j] => i = j

\* The list is one chain of Nodes that exist, the same from front to rear and
\* from rear to front, with no Node twice and no Node that exists left out of
\* it; the keys of pageMap are the keys on the list, each once, the entry of a
\* key pointing to the Node that carries it; size is the number of both.
ListMatchesIndex ==
    /\ Len(FromFront) <= Cardinality(Addrs)
    /\ OnceEach(FromFront)
    /\ FromRear = Reverse(FromFront)
    /\ \A a \in Addrs : lru.node[a].live <=> (\E i \in 1..Len(FromFront) : FromFront[i] = a)
    /\ lru.front # Null => lru.node[lru.front].prev = Null
    /\ lru.rear # Null => lru.node[lru.rear].next = Null
    /\ OnceEach(ListKeys)
    /\ MapKeys = {ListKeys[i] : i \in 1..Len(ListKeys)}
    /\ \A k \in MapKeys :
          lru.pageMap[k] \in Addrs /\ lru.node[lru.pageMap[k]].key = k
    /\ lru.size = Cardinality(MapKeys)
    /\ lru.size = Len(FromFront)

\* a call of the owner of the cache has just completed, or none is in progress
Settled == thr[Owner].pc \in {"idle", "ret"}

\* k is among the keys of the sequence s
Among(s, k) == \E i \in 1..Len(s) : s[i] = k

\* s with k made its first element
Touch(s, k) == <<k>> \o SelectSeq(s, LAMBDA x : x # k)

\* the keys, from the most to the least recently used, that a cache of
\* capacity c holds after put(k, .) on one that held s
PutOrder(s, k, c) ==
    IF Among(s, k) THEN Touch(s, k)
    ELSE IF Len(s) >= c /\ Len(s) > 0 THEN <<k>> \o SubSeq(s, 1, Len(s) - 1)
    ELSE <<k>> \o s

\* used.order and used.val once the call thread t is in has returned
ExpOrder(t) ==
    IF thr[t].name = "put" THEN PutOrder(used.order, thr[t].key, lru.capacity)
    ELSE IF Among(used.order, thr[t].key) THEN Touch(used.order, thr[t].key)
    ELSE used.order
ExpVal(t) ==
    IF thr[t].name = "put" THEN [used.val EXCEPT ![thr[t].key] = thr[t].value]
    ELSE used.val

\* used after a step of thread t
UsedAfter(t) ==
    IF thr[t].pc = "idle" /\ thr'[t].pc # "idle"
    THEN [used EXCEPT !.overlapped =
                        @ \/ \E u \in Threads \ {t} : thr[u].pc # "idle"]
    ELSE IF thr[t].pc = "ret" /\ thr'[t].pc = "idle"
    THEN [used EXCEPT !.order = ExpOrder(t), !.val = ExpVal(t)]
    ELSE used

\* frame of the steps of the cache
Kept(t) == used' = UsedAfter(t) /\ UNCHANGED hashv

\* the shared-memory map left alone
InitHash ==
    /\ mtx_made = FALSE
    /\ holder = NoProc
    /\ made = {}
    /\ maps = [n \in MapNames |-> <<>>]
    /\ handle = [p \in Procs |-> "default"]
    /\ name_mem = handle
    /\ pc = [p \in Procs |-> "idle"]
    /\ op = [p \in Procs |-> NoOp]
    /\ exc = [p \in Procs |-> "none"]
    /\ out = [p \in Procs |-> NoOut]
    /\ cnt = [p \in Procs |-> 0]
    /\ snap = [p \in Procs |-> NoSnap]
    /\ abs = [k \in Keys |-> "absent"]
    /\ seg_size = SegSize
    /\ att = [p \in Procs |-> IF p = Writer THEN "created" ELSE "attached"]
    /\ life = OldLife
    /\ orphan = NoOrphan
    /\ codec = "raw"
    /\ py = [p \in Procs |-> NoPy]
    /\ pydict = NoDict
    /\ trav = NoTrav

\* LRU.__cinit__(size): new LRUCache(size), with a size of 1 or more
InitLRU ==
    /\ InitHash
    /\ lru \in {NewCache(c) : c \in GoodCaps}
    /\ thr = [t \in Threads |-> NoCall]
    /\ used = NoUse

\* LRU.__cinit__(size) with any int
InitCap ==
    /\ InitHash
    /\ lru \in {NewCache(c) : c \in Caps}
    /\ thr = [t \in Threads |-> NoCall]
    /\ used = NoUse

\* the steps of the call thread t is in
LStep(t) ==
    \/ GetFind(t) /\ Kept(t)
    \/ GetVal(t) /\ Kept(t)
    \/ GetPage(t) /\ Kept(t)
    \/ MvTest(t) /\ Kept(t)
    \/ MvRear1(t) /\ Kept(t)
    \/ MvRear2(t) /\ Kept(t)
    \/ MvMid1(t) /\ Kept(t)
    \/ MvMid2(t) /\ Kept(t)
    \/ MvLink1(t) /\ Kept(t)
    \/ MvLink2(t) /\ Kept(t)
    \/ MvLink3(t) /\ Kept(t)
    \/ MvLink4(t) /\ Kept(t)
    \/ PutFind(t) /\ Kept(t)
    \/ PutUpd(t) /\ Kept(t)
    \/ PutFull(t) /\ Kept(t)
    \/ EvKey(t) /\ Kept(t)
    \/ EvErase(t) /\ Kept(t)
    \/ RmTest(t) /\ Kept(t)
    \/ RmOne(t) /\ Kept(t)
    \/ RmMany1(t) /\ Kept(t)
    \/ RmMany2(t) /\ Kept(t)
    \/ RmMany3(t) /\ Kept(t)
    \/ EvDec(t) /\ Kept(t)
    \/ AddNew(t) /\ Kept(t)
    \/ AddTest(t) /\ Kept(t)
    \/ AddLink1(t) /\ Kept(t)
    \/ AddLink2(t) /\ Kept(t)
    \/ AddLink3(t) /\ Kept(t)
    \/ AddSize(t) /\ Kept(t)
    \/ AddMap(t) /\ Kept(t)
    \/ LReturn(t) /\ Kept(t)

NextLRU ==
    \/ \E k \in LKeys, v \in LVals : LPut(Owner, k, v) /\ Kept(Owner)
    \/ \E k \in LKeys : LGetItem(Owner, k) /\ Kept(Owner)
    \/ \E k \in LKeys : LGet(Owner, k) /\ Kept(Owner)
    \/ LStep(Owner)

\* One thread using an LRU of capacity 1 or more.
SpecLRU == InitLRU /\ [][NextLRU]_vars

\* One thread using an LRU of any capacity.
SpecCap == InitCap /\ [][NextLRU]_vars

\* One thread using an LRU of capacity 1 or more, and deleting it in the end.
NextDown ==
    \/ \E k \in LKeys, v \in LVals : LPut(Owner, k, v) /\ Kept(Owner)
    \/ \E k \in LKeys : LGetItem(Owner, k) /\ Kept(Owner)
    \/ \E k \in LKeys : LGet(Owner, k) /\ Kept(Owner)
    \/ LStep(Owner)
    \/ DtorBegin(Owner) /\ Kept(Owner)
    \/ DtorTest(Owner) /\ Kept(Owner)
    \/ DtorNode(Owner) /\ Kept(Owner)
    \/ DtorList(Owner) /\ Kept(Owner)

SpecDown == InitLRU /\ [][NextDown]_vars

\* every thread is between the statements of no call
AllSettled == \A t \in Threads : thr[t].pc \in {"idle", "ret"}

\* the values two threads put: the list and the index do not depend on them
ThreadVals == {"1"}

\* frame of a call one of two threads begins
Begun(t) ==
    /\ used.calls < MaxCalls
    /\ used' = [UsedAfter(t) EXCEPT !.calls = @ + 1]
    /\ UNCHANGED hashv

NextThreads ==
    \/ \E t \in Threads, k \in LKeys, v \in ThreadVals :
          LPut(t, k, v) /\ Begun(t)
    \/ \E t \in Threads, k \in LKeys : LGetItem(t, k) /\ Begun(t)
    \/ \E t \in Threads : LStep(t)

\* Two threads using one LRUCache with no lock around their calls.
SpecThreads == InitLRU /\ [][NextThreads]_vars

(* ------------------- handles on a removed segment --------------------- *)

\* shmfree as the handles that have the segment mapped live it: they keep
\* their mapping of the segment, which has no name any more. One such segment
\* is followed at a time.
Unlink(p) ==
    /\ Alone(p)
    /\ \A q \in Procs : att[q] # "stale"
    /\ orphan' = IF \E q \in Procs : Attached(q)
                 THEN [size |-> seg_size, mtx |-> mtx_made, made |-> made,
                       maps |-> maps, late |-> {}]
                 ELSE NoOrphan
    /\ UNCHANGED <<abs, trav, wrap, lruv>>

\* the release of a handle: the mapping of a removed segment goes with its
\* last handle
Release(p) ==
    /\ Alone(p)
    /\ orphan' = IF \E q \in Procs \ {p} : att[q] = "stale" THEN orphan
                 ELSE NoOrphan
    /\ UNCHANGED <<abs, trav, wrap, lruv>>

\* the start and the exit of a call made through a handle on the removed
\* segment, no other call being under way
StaleCall(p) == att[p] = "stale" /\ Alone(p) /\ Quiet

\* frame of the body of such a call
Stale(p) ==
    /\ att[p] = "stale" /\ Alone(p)
    /\ UNCHANGED <<abs, seg_size, att, life, trav, wrap, lruv>>

\* StaleBody going by the name: it opens the segment the name denotes now
StaleBody_FollowsName(p) ==
    /\ pc[p] = "findmtx"
    /\ seg_size # 0
    /\ \E r \in OutcomesIn(seg_size, op[p], name_mem[p],
                            [maps |-> maps, made |-> made]) :
          /\ exc' = [exc EXCEPT ![p] = r.exc]
          /\ out' = [out EXCEPT ![p].val = r.val]
          /\ maps' = r.maps
          /\ made' = r.made
    /\ mtx_made' = TRUE
    /\ pc' = [pc EXCEPT ![p] = "ret"]
    /\ UNCHANGED <<holder, handle, name_mem, op, cnt, snap, orphan>>

\* set, get or erase through a handle made before shmfree: this->shm is the
\* mapping made by the constructor, so "mtx" and the map are looked up,
\* locked, read and written in the removed segment
StaleBody(p) ==
    /\ pc[p] = "findmtx"
    /\ IF ~orphan.mtx
          /\ FreeIn(orphan.size, FALSE, orphan.made, orphan.maps) < MtxCost
       THEN /\ Throw(p, "bad_alloc")
            /\ UNCHANGED <<out, orphan>>
       ELSE \E r \in OutcomesIn(orphan.size, op[p], name_mem[p],
                                [maps |-> orphan.maps, made |-> orphan.made]) :
               /\ exc' = [exc EXCEPT ![p] = r.exc]
               /\ out' = [out EXCEPT ![p].val = r.val]
               /\ pc' = [pc EXCEPT ![p] = "ret"]
               /\ orphan' = [orphan EXCEPT
                               !.mtx = TRUE, !.made = r.made, !.maps = r.maps,
                               !.late = IF op[p].name = "set" /\ r.exc = "none"
                                        THEN @ \cup {op[p].key} ELSE @]
    /\ UNCHANGED <<mtx_made, holder, made, maps, handle, name_mem, op, cnt,
                   snap>>

NextStale ==
    \E p \in Procs :
        \/ \E size \in Sizes : Open(p, "default", size) /\ Life(p)
        \/ Drop(p) /\ Release(p)
        \/ Destroy(p) /\ Unlink(p)
        \/ \E k \in Keys, v \in Values : SetItem(p, k, v) /\ SoloMut(p)
        \/ \E k \in Keys : GetItem(p, k) /\ Solo(p)
        \/ FindMtx(p) /\ Solo(p)
        \/ Lock(p) /\ Solo(p)
        \/ FindMap(p) /\ Solo(p)
        \/ SetErase(p) /\ Solo(p)
        \/ SetInsert(p) /\ Solo(p)
        \/ GetBody(p) /\ Solo(p)
        \/ \E k \in Keys, v \in Values : SetItem(p, k, v) /\ StaleCall(p)
        \/ \E k \in Keys : GetItem(p, k) /\ StaleCall(p)
        \/ \E k \in Keys : DelItem(p, k) /\ StaleCall(p)
        \/ StaleBody(p) /\ Stale(p)
        \/ Return(p) /\ Quiet

\* Handles that outlive shmfree: constructors on map name "default",
\* releases, shmfree, and set, get and erase through handles on the segment of
\* the name and on the removed one, the calls being made one at a time.
SpecStale == InitSeg /\ [][NextStale]_vars

(* ------------------- a map under the mutex's name --------------------- *)

\* the name under which every method looks the mutex up
MtxName == "mtx"

\* the process whose handle was constructed with map_name = "mtx"
Namesake == "p2"

\* find_or_construct<ShmMap>(this->map_name) when the name is "mtx": the
\* segment's index of named objects is keyed by the name alone, the method has
\* just found or made the mutex under it, and so the object found is the
\* mutex, returned as a ShmMap *
FindMapNamedMtx(p) ==
    /\ pc[p] = "findmap"
    /\ name_mem[p] = MtxName
    /\ pc' = [pc EXCEPT ![p] = "alias"]
    /\ UNCHANGED <<mtx_made, holder, made, maps, handle, name_mem, op, exc,
                   out, cnt, snap>>

\* the body of a method run on the mutex's bytes as if they were a ShmMap:
\* undefined. It may read anything as the result, and what a set, erase or
\* clear writes goes into the mutex, which may then read as free or as held by
\* any process.
AliasBody(p) ==
    /\ pc[p] = "alias"
    /\ \E e \in {"none", "KeyError", "bad_alloc"} :
          /\ op[p].name = "set" => e # "KeyError"
          /\ exc' = [exc EXCEPT ![p] = e]
    /\ out' = [out EXCEPT ![p].val = IF op[p].name = "get" THEN Junk ELSE ""]
    /\ IF op[p].name \in MutatingOps
       THEN holder' \in Procs \cup {NoProc}
       ELSE UNCHANGED holder
    /\ pc' = [pc EXCEPT ![p] = "ret"]
    /\ UNCHANGED <<mtx_made, made, maps, handle, name_mem, op, cnt, snap>>

\* or the process dies in it, holding the mutex
AliasFault(p) ==
    /\ pc[p] = "alias"
    /\ pc' = [pc EXCEPT ![p] = "dead"]
    /\ op' = [op EXCEPT ![p] = NoOp]
    /\ snap' = [snap EXCEPT ![p] = NoSnap]
    /\ UNCHANGED <<mtx_made, holder, made, maps, handle, name_mem, exc, out,
                   cnt>>

\* BytesHashMap(name, size) in one process and BytesHashMap(name, size,
\* map_name='mtx') in the other
InitMtx ==
    /\ mtx_made = FALSE
    /\ holder = NoProc
    /\ made = {}
    /\ maps = [n \in MapNames |-> <<>>]
    /\ handle = [p \in Procs |-> IF p = Namesake THEN MtxName ELSE "default"]
    /\ name_mem = handle
    /\ pc = [p \in Procs |-> "idle"]
    /\ op = [p \in Procs |-> NoOp]
    /\ exc = [p \in Procs |-> "none"]
    /\ out = [p \in Procs |-> NoOut]
    /\ cnt = [p \in Procs |-> 0]
    /\ snap = [p \in Procs |-> NoSnap]
    /\ abs = [k \in Keys |-> "absent"]
    /\ seg_size = SegSize
    /\ att = [p \in Procs |-> IF p = Writer THEN "created" ELSE "attached"]
    /\ life = OldLife
    /\ orphan = NoOrphan
    /\ codec = "raw"
    /\ py = [p \in Procs |-> NoPy]
    /\ pydict = NoDict
    /\ lru = NewCache(1)
    /\ thr = [t \in Threads |-> NoCall]
    /\ used = NoUse
    /\ trav = NoTrav

NextMtx ==
    \E p \in Procs :
        \/ \E k \in Keys, v \in Values : SetItem(p, k, v) /\ Quiet
        \/ \E k \in Keys : GetItem(p, k) /\ Quiet
        \/ \E k \in Keys : DelItem(p, k) /\ Quiet
        \/ FindMtx(p) /\ Quiet
        \/ Lock(p) /\ Quiet
        \/ name_mem[p] # MtxName /\ FindMap(p) /\ Quiet
        \/ FindMapNamedMtx(p) /\ Quiet
        \/ AliasBody(p) /\ Quiet
        \/ AliasFault(p) /\ Quiet
        \/ SetErase(p) /\ Quiet
        \/ SetInsert(p) /\ Quiet
        \/ GetBody(p) /\ Quiet
        \/ EraseBody(p) /\ Quiet
        \/ Return(p) /\ Quiet

\* Two handles on one segment, one of them on map name "mtx".
SpecMtx == InitMtx /\ [][NextMtx]_vars

(* ------------------------------ claims -------------------------------- *)

\* p has acquired the mutex in the call in progress and has not returned
PastLock(p) ==
    \/ pc[p] \in {"findmap", "body", "insert"}
    \/ pc[p] = "ret" /\ op[p].name \in LockedOps /\ mtx_made

\* C1: when the only process that writes the map reads a key whose latest
\* completed mutation is its own set(k, v), get(k) returns v.
C1_GetReturnsLatestSet ==
    (pc[Writer] = "ret" /\ op[Writer].name = "get" /\ abs[op[Writer].key] \in Values)
        => (PyResult(Writer) = "value" /\ out[Writer].val = abs[op[Writer].key])

\* C5: a get(k) that another process, whose handle has the same segment and
\* map name, starts after the writer's set(k, v), erase(k) or clear() completed
\* returns v, respectively fails with KeyError, while no later mutation of k
\* has been started.
C5_OtherProcessObservesWrites ==
    \A p \in Procs \ {Writer} :
        (/\ handle[p] = handle[Writer]
         /\ pc[p] = "ret" /\ op[p].name = "get"
         /\ op[p].seen = abs[op[p].key]
         /\ abs[op[p].key] # "unknown")
        => IF abs[op[p].key] = "absent"
           THEN PyResult(p) = "KeyError"
           ELSE PyResult(p) = "value" /\ out[p].val = abs[op[p].key]

\* p has read the segment in a size() or free() call that has not returned
PastRead(p) == pc[p] = "ret" /\ op[p].name \in UnlockedOps

\* C2 as stated: every call, size and free_bytes included, holds the mutex
\* from its first access to the segment's contents until it returns.
C2_EveryCallHoldsMutex ==
    \A p \in Procs : (PastLock(p) \/ PastRead(p)) => holder = p

\* C2 as amended: set, get, erase, iterate and clear hold the mutex from before
\* their first access to a map until they return; size and free_bytes read the
\* segment without ever holding it.
C2_MapCallsHoldMutex ==
    \A p \in Procs :
        /\ PastLock(p) => holder = p
        /\ (pc[p] # "dead" /\ op[p].name \in UnlockedOps) => holder # p

\* a size() or free() of one process has read the segment while another
\* process is between the erase and the insert of a set
C2_Witness ==
    \E p, q \in Procs : PastRead(p) /\ pc[q] = "insert" /\ holder = q

\* C3: at most one process is inside the locked body of set, get, erase,
\* iterate or clear, whatever map names the calls look up.
C3_OneProcessInBody ==
    \A p, q \in Procs : (PastLock(p) /\ PastLock(q)) => p = q

\* a get is inside its body while an iter of another process, which looks up
\* another map name, waits for the mutex
C3_Witness ==
    \E p, q \in Procs :
        /\ pc[p] = "body" /\ op[p].name = "get"
        /\ pc[q] = "lock" /\ op[q].name = "iter"
        /\ name_mem[p] # name_mem[q]

\* C4: a call that is about to return gives the result, and leaves the
\* contents, that its statements give when run alone on the contents found
\* when it acquired the mutex.
C4_CallsAreSerial ==
    \A p \in Procs :
        (pc[p] = "ret" /\ PastLock(p))
        => [exc |-> exc[p], val |-> out[p].val, maps |-> maps, made |-> made]
               \in AtomicOutcomes(op[p], name_mem[p], snap[p])

\* a set has replaced a value while a call of another process waited for the
\* mutex
C4_Witness ==
    \E p, q \in Procs :
        /\ pc[p] = "ret" /\ op[p].name = "set" /\ exc[p] = "none"
        /\ HasKey(snap[p].maps[name_mem[p]], op[p].key)
        /\ maps # snap[p].maps
        /\ pc[q] = "lock"

\* the mutex is held by a process that has died
DeadHolder == holder # NoProc /\ pc[holder] = "dead"

\* p's call returns in this step
Returns(p) == pc[p] = "ret" /\ pc'[p] = "idle"

\* C6 as stated: once the holder of the mutex has died, no call of any other
\* process on the segment returns.
C6_NoCallReturns ==
    [][DeadHolder => \A p \in Procs : ~Returns(p)]_vars

\* C6 as amended: once the holder of the mutex has died the mutex stays held
\* by it, and no set, get, erase, iterate or clear of another process returns
\* or gets past the acquisition.
C6_NoMapCallReturns ==
    [][DeadHolder =>
          /\ holder' = holder
          /\ \A p \in Procs :
                op[p].name \in LockedOps => (~Returns(p) /\ pc'[p] # "findmap")]_vars

\* a call waits for the mutex that a dead process holds
C6_Witness ==
    DeadHolder /\ \E p \in Procs : pc[p] = "lock" /\ op[p].name \in LockedOps

\* C8 as stated: a set, erase or clear that returns has applied its whole
\* effect to the map its handle names or has left that map as it was; a set
\* that fails on a key that was present leaves the key with its old value.
C8_MutationsAllOrNothing ==
    \A p \in Procs :
        (pc[p] = "ret" /\ holder = p /\ op[p].name \in MutatingOps)
        => LET before == snap[p].maps[handle[p]]
               now == maps[handle[p]]
               k == op[p].key
               whole == IF op[p].name = "clear" THEN now = <<>>
                        ELSE IF op[p].name = "erase" THEN now = EraseKey(before, k)
                        ELSE /\ HasKey(now, k)
                             /\ ValueAt(now, k) = op[p].val
                             /\ EraseKey(now, k) = EraseKey(before, k)
           IN  /\ now = before \/ whole
               /\ (op[p].name = "set" /\ exc[p] # "none" /\ HasKey(before, k))
                      => (HasKey(now, k) /\ ValueAt(now, k) = ValueAt(before, k))

\* C9 as stated: a get of a key that is not in the map its handle names fails
\* with KeyError.
C9_AbsentKeyRaisesKeyError ==
    \A p \in Procs :
        (/\ pc[p] = "ret" /\ holder = p /\ op[p].name = "get"
         /\ ~HasKey(maps[handle[p]], op[p].key))
        => PyResult(p) = "KeyError"

\* C10 as stated: an erase of a key that is not in the map its handle names
\* returns without an error and leaves that map's entries as they were.
C10_EraseAbsentIsNoOp ==
    \A p \in Procs :
        (/\ pc[p] = "ret" /\ holder = p /\ op[p].name = "erase"
         /\ ~HasKey(snap[p].maps[handle[p]], op[p].key))
        => (PyResult(p) = "ok" /\ maps[handle[p]] = snap[p].maps[handle[p]])

\* C7: without crashes and with fair acquisition, the mutex is only ever held
\* by a process inside a call, and every call that was started returns: each
\* process is outside any call again and again.
C7_EveryCallReturns ==
    /\ [](\A p \in Procs : holder = p => PastLock(p))
    /\ \A p \in Procs : []<>(pc[p] = "idle")

\* a call waits for the mutex while the other process is inside a set
C7_Witness ==
    \E p, q \in Procs :
        /\ pc[p] = "lock" /\ op[p].name \in LockedOps
        /\ holder = q /\ pc[q] = "insert"

\* C11: size() returns the byte size the segment was created with, whatever
\* the maps hold, and that size never changes while the segment exists.
C11_SizeIsCreationCapacity ==
    /\ [](\A p \in Procs :
            (pc[p] = "ret" /\ op[p].name = "size")
            => (out[p].num = seg_size /\ seg_size \in Sizes))
    /\ [][(seg_size # 0 /\ seg_size' # 0) => seg_size' = seg_size]_vars

\* size() has read the size of a segment created small while a map of the
\* segment holds an entry, entries having been stored and removed before
C11_Witness ==
    \E p \in Procs :
        /\ pc[p] = "ret" /\ op[p].name = "size"
        /\ out[p].num = SmallSize
        /\ \E n \in MapNames : Len(maps[n]) = 1
        /\ \E q \in Procs : att[q] = "attached"

\* C12 as stated: through a handle whose constructor found the segment, every
\* entry the map it names held then is returned by get, and size() reports the
\* size the segment was created with.
C12_ReopenKeepsEntries ==
    \A p \in Procs :
        (att[p] = "found" /\ pc[p] = "ret")
        => /\ op[p].name = "size" => out[p].num = seg_size
           /\ (op[p].name = "get" /\ HasKey(maps[handle[p]], op[p].key))
                  => (/\ PyResult(p) = "value"
                      /\ out[p].val = ValueAt(maps[handle[p]], op[p].key))

\* C13: in the segment made by the first constructor after shmfree, as long as
\* no set has been started, get fails with KeyError for every key the removed
\* segment stored and the first next() of a traversal ends it.
C13_DestroyThenOpenIsEmpty ==
    life.phase = "fresh"
    => \A p \in Procs :
          pc[p] = "ret"
          => /\ (op[p].name = "get" /\ op[p].key \in life.had)
                    => PyResult(p) = "KeyError"
             /\ (op[p].name = "iter" /\ op[p].pos = 0) => PyResult(p) = "end"

\* a get of a key the removed segment stored has looked the key up in the new
\* segment, which was created with another handle's map name in use
C13_Witness ==
    /\ life.phase = "fresh"
    /\ \E p \in Procs :
          /\ pc[p] = "ret" /\ op[p].name = "get" /\ op[p].key \in life.had
          /\ holder = p /\ exc[p] = "KeyError"

\* C14 as stated: the release of a handle removes nothing from the segment,
\* and a handle opened once every earlier handle is gone reads, by get, every
\* entry the map it names holds.
C14_EntriesOutliveHandles ==
    /\ [][\A p \in Procs :
            (att[p] # "none" /\ att'[p] = "none")
            => UNCHANGED <<seg_size, mtx_made, made, maps>>]_vars
    /\ [](\A p \in Procs :
            (/\ att[p] = "found"
             /\ \A q \in Procs \ {p} : att[q] = "none"
             /\ pc[p] = "ret" /\ op[p].name = "get"
             /\ HasKey(maps[handle[p]], op[p].key))
            => (/\ PyResult(p) = "value"
                /\ out[p].val = ValueAt(maps[handle[p]], op[p].key)))

\* C15 as stated: in a traversal during which the map the handle names has
\* not changed, the call at a position below the number of entries returns the
\* value of the entry at that position, the call at the number of entries ends
\* the traversal, and the calls so far have returned the entries in order, each
\* once.
C15_QuiescentTraversalEnumerates ==
    (trav.on /\ trav.calm /\ pc[Reader] = "ret" /\ op[Reader].name = "iter")
    => LET m == maps[handle[Reader]]
           pos == op[Reader].pos
       IN  IF pos < Len(m)
           THEN /\ PyResult(Reader) = "value"
                /\ out[Reader].val = m[pos + 1][2]
                /\ trav.got = [i \in 1..(pos + 1) |-> m[i][1]]
           ELSE /\ pos = Len(m)
                /\ PyResult(Reader) = "end"
                /\ trav.got = [i \in 1..Len(m) |-> m[i][1]]

\* C16 as stated: in a traversal whose calls all look up the map the handle
\* names, whatever other processes do to that map between the calls, iter(pos)
\* returns the value of the entry at pos when pos is below the number of
\* entries, and ends the traversal when pos is that number or more.
C16_IterateEndsPastCount ==
    (/\ trav.on /\ trav.named
     /\ pc[Reader] = "ret" /\ op[Reader].name = "iter" /\ holder = Reader)
    => LET m == maps[handle[Reader]]
           pos == op[Reader].pos
       IN  IF pos < Len(m)
           THEN PyResult(Reader) = "value" /\ out[Reader].val = m[pos + 1][2]
           ELSE PyResult(Reader) = "end"

\* C17: between two calls of its traversal the traversing process does not
\* hold the mutex.
C17_MutexFreeBetweenCalls ==
    (trav.on /\ pc[Reader] = "idle") => holder # Reader

\* a traversal whose calls all looked up the map the handle names has returned
\* the entry of one key twice
C17_Witness ==
    /\ trav.on /\ trav.named
    /\ \E i, j \in DOMAIN trav.got :
          i < j /\ trav.got[i] = trav.got[j] /\ trav.got[i] # Junk

\* such a traversal ends, at the number of entries, without having returned an
\* entry that was in the map since it began
C17_SkipWitness ==
    /\ trav.on /\ trav.named
    /\ pc[Reader] = "ret" /\ exc[Reader] = "StopIteration"
    /\ op[Reader].pos = Len(maps[handle[Reader]])
    /\ \E k \in trav.kept : \A i \in DOMAIN trav.got : trav.got[i] # k

\* C18 as stated: when clear() of a handle completes, the map the handle names
\* has no entries (the call still holds the mutex, no set has come after it).
C18_ClearEmptiesNamedMap ==
    \A p \in Procs :
       (pc[p] = "ret" /\ op[p].name = "clear" /\ exc[p] = "none")
       => maps[handle[p]] = <<>>

\* C19 as stated: for each class of handle, a get of a key under which a set
\* stored a plain value, no erase or clear having come since, returns bytes
\* that decode to that value; with BytesHashMap the bytes returned are the
\* bytes stored.
C19_CodecRoundTrip ==
    \A p \in Procs :
       (/\ pc[p] = "ret" /\ op[p].name = "get"
        /\ pydict[py[p].key.val].val \in PlainVals)
       => (/\ exc[p] = "none"
           /\ Loads(codec, out[p].val) = Value(pydict[py[p].key.val].val)
           /\ (codec = "raw" => out[p].val = pydict[py[p].key.val].bytes))

\* C20 as stated: a set whose key or value cannot be encoded raises and changes
\* no map; a get or a call of the traversal whose bytes cannot be decoded
\* raises the error of the decoding, and changes no map.
C20_CodecFailuresSurface ==
    /\ [][\A p \in Procs :
            (py'[p] # py[p] /\ py'[p].err # "none") => maps' = maps]_vars
    /\ [](\A p \in Procs :
            (/\ pc[p] = "ret" /\ op[p].name \in {"get", "iter"}
             /\ exc[p] = "none"
             /\ Loads(codec, out[p].val).err # "none")
            => PyResult(p) = Loads(codec, out[p].val).err)
    /\ [][\A p \in Procs :
            (pc[p] = "ret" /\ op[p].name \in {"get", "iter"} /\ pc'[p] = "idle")
            => maps' = maps]_vars

\* C21: on a cache constructed with capacity N >= 1, after every put and every
\* get the size, the number of keys indexed and the number of nodes on the
\* list are at most N.
C21_SizeAtMostCapacity ==
    Settled => (/\ lru.size <= lru.capacity
                /\ Cardinality(MapKeys) <= lru.capacity
                /\ Len(FromFront) <= lru.capacity)

\* a put of a key that was not cached has completed on a full cache
C21_Witness ==
    /\ thr[Owner].pc = "ret" /\ thr[Owner].name = "put"
    /\ ~Among(used.order, thr[Owner].key)
    /\ Len(used.order) = lru.capacity
    /\ lru.size = lru.capacity

\* C22: a put(k, v) of a key that is not cached, on a cache whose size is its
\* capacity, evicts the key whose last access is the oldest and no other, and
\* leaves k first on the list with the value v, every other key keeping its
\* place after it and its value.
C22_PutEvictsLeastRecent ==
    (/\ thr[Owner].pc = "ret" /\ thr[Owner].name = "put"
     /\ ~Among(used.order, thr[Owner].key)
     /\ Len(used.order) = lru.capacity)
    => LET old == used.order
           kept == SubSeq(old, 1, Len(old) - 1)
       IN  /\ lru.pageMap[old[Len(old)]] = NoPage
           /\ Holds(<<thr[Owner].key>> \o kept,
                    [used.val EXCEPT ![thr[Owner].key] = thr[Owner].value])
           /\ lru.size = lru.capacity

\* capacity 2: put a, put b, get a, put c has evicted b and kept a
C22_Witness ==
    /\ thr[Owner].pc = "ret" /\ thr[Owner].name = "put"
    /\ thr[Owner].key = "c"
    /\ lru.capacity = 2
    /\ used.order = <<"a", "b">>
    /\ ListKeys = <<"c", "a">>
    /\ lru.pageMap["b"] = NoPage

\* C23: a put(k, v) of a cached key leaves k first on the list with the value
\* v, every other key keeping its place after it and its value; no key leaves
\* the cache and size does not change, also when size is the capacity.
C23_PutUpdatesInPlace ==
    (/\ thr[Owner].pc = "ret" /\ thr[Owner].name = "put"
     /\ Among(used.order, thr[Owner].key))
    => (/\ Holds(Touch(used.order, thr[Owner].key),
                 [used.val EXCEPT ![thr[Owner].key] = thr[Owner].value])
        /\ lru.size = Len(used.order))

\* a put has given a new value to a key of a full cache that was not the most
\* recently used
C23_Witness ==
    /\ thr[Owner].pc = "ret" /\ thr[Owner].name = "put"
    /\ Among(used.order, thr[Owner].key)
    /\ used.order[1] # thr[Owner].key
    /\ used.val[thr[Owner].key] # thr[Owner].value
    /\ Len(used.order) = lru.capacity
    /\ ListKeys[1] = thr[Owner].key

\* C24: a get(k) of a cached key returns the value of the latest put of k and
\* leaves k first on the list, the other keys keeping their order and every
\* key its value; a get(k) of a key that is not cached raises KeyError and
\* leaves the cache as it was.
C24_GetReturnsAndPromotes ==
    (thr[Owner].pc = "ret" /\ thr[Owner].name = "getitem")
    => IF Among(used.order, thr[Owner].key)
       THEN /\ thr[Owner].res = "value"
            /\ thr[Owner].ret = used.val[thr[Owner].key]
            /\ Holds(Touch(used.order, thr[Owner].key), used.val)
       ELSE /\ thr[Owner].res = "KeyError"
            /\ Holds(used.order, used.val)

\* a get has returned the value of the key that was second of three
C24_Witness ==
    /\ thr[Owner].pc = "ret" /\ thr[Owner].name = "getitem"
    /\ Len(used.order) = 3
    /\ used.order[2] = thr[Owner].key
    /\ thr[Owner].res = "value"
    /\ ListKeys = <<used.order[2], used.order[1], used.order[3]>>

\* a get of a key that was put and evicted since has raised KeyError
C24_EvictedWitness ==
    /\ thr[Owner].pc = "ret" /\ thr[Owner].name = "getitem"
    /\ used.val[thr[Owner].key] # ""
    /\ ~Among(used.order, thr[Owner].key)
    /\ thr[Owner].res = "KeyError"

\* C25: LRU.get(k, d) raises nothing: for a cached key it returns the value and
\* leaves k first on the list as a get does; for a key that is not cached it
\* returns d and leaves the cache as it was, without k.
C25_GetOrDefaultNeverRaises ==
    (thr[Owner].pc = "ret" /\ thr[Owner].name = "get")
    => IF Among(used.order, thr[Owner].key)
       THEN /\ thr[Owner].res = "value"
            /\ thr[Owner].ret = used.val[thr[Owner].key]
            /\ Holds(Touch(used.order, thr[Owner].key), used.val)
       ELSE /\ thr[Owner].res = "default"
            /\ thr[Owner].ret = Default
            /\ Holds(used.order, used.val)
            /\ lru.size = Len(used.order)

\* LRU.get has returned the default for a key that is not cached, on a cache
\* that holds other keys
C25_Witness ==
    /\ thr[Owner].pc = "ret" /\ thr[Owner].name = "get"
    /\ ~Among(used.order, thr[Owner].key)
    /\ used.order # <<>>
    /\ thr[Owner].res = "default"

\* C26: after every get and every put the keys of pageMap are the keys on the
\* list, each on it once, each entry of pageMap points to the node that
\* carries its key, and size is the number of entries and the length of the
\* list.
C26_IndexEqualsList == Settled => ListMatchesIndex

\* a get has moved the rear node of a list of three to the front
C26_Witness ==
    /\ thr[Owner].pc = "ret" /\ thr[Owner].name \in {"getitem", "get"}
    /\ Len(used.order) = 3
    /\ used.order[3] = thr[Owner].key
    /\ Len(FromFront) = 3
    /\ lru.node[lru.front].key = thr[Owner].key

\* C27 as stated: on a cache the constructor has returned, for a capacity of 0
\* or less as for any other, every put completes and leaves its key cached,
\* and after every call size and the number of cached keys are at most the
\* greater of the capacity and 1.
C27_NonPositiveCapacityIsSafe ==
    LET most == IF lru.capacity > 1 THEN lru.capacity ELSE 1
    IN  /\ Alive
        /\ Settled => (lru.size <= most /\ Cardinality(MapKeys) <= most)
        /\ (thr[Owner].pc = "ret" /\ thr[Owner].name = "put")
              => lru.pageMap[thr[Owner].key] # NoPage

\* C27, the capacities below 0: the cache stays within one entry.
C27_NegativeCapacityIsBounded ==
    (lru.capacity < 0 /\ Settled) => Cardinality(MapKeys) <= 1

\* C28: LRUCache takes no lock. As long as no call has begun while another
\* call was running, the list and the index agree between calls; once the
\* statements of two calls have interleaved, states are reached in which they
\* do not.
C28_OnlyOverlapCorrupts ==
    (AllSettled /\ ~used.overlapped) => ListMatchesIndex

\* both threads are between calls, none has died, and the list and the index
\* disagree
C28_Witness ==
    /\ \A t \in Threads : thr[t].pc = "idle"
    /\ used.overlapped
    /\ ~ListMatchesIndex

\* the entries of key k in map m
Count(m, k) == Cardinality({i \in 1..Len(m) : m[i][1] = k})

\* C29, the first half: between the erase and the insert of a set the process
\* holds the mutex, and a get that is reading a map holds it, so no get of
\* another process runs between the two steps.
C29_SetHoldsMutexThroughout ==
    \A p \in Procs :
        /\ pc[p] = "insert" => holder = p
        /\ (pc[p] = "body" /\ op[p].name = "get") => holder = p

\* C29 as stated: set holds the mutex from its erase to its insert, and a
\* set of a key that was present returns with the map its handle names
\* holding the key exactly once, with the value set when the set succeeded.
C29_SetIsAtomic ==
    /\ C29_SetHoldsMutexThroughout
    /\ \A p \in Procs :
          (/\ pc[p] = "ret" /\ holder = p /\ op[p].name = "set"
           /\ HasKey(snap[p].maps[handle[p]], op[p].key))
          => /\ Count(maps[handle[p]], op[p].key) = 1
             /\ exc[p] = "none"
                  => ValueAt(maps[handle[p]], op[p].key) = op[p].val

\* C29 for a set whose map_name still names its map: the key is there when
\* the set returns.
C29_SetKeepsKey ==
    \A p \in Procs :
        (/\ pc[p] = "ret" /\ holder = p /\ op[p].name = "set"
         /\ name_mem[p] = handle[p]
         /\ HasKey(snap[p].maps[handle[p]], op[p].key))
        => Count(maps[handle[p]], op[p].key) = 1

\* C30: in every reachable state every named map holds each key at most
\* once, every key it holds is a key that calls have set, and so it holds no
\* more entries than there are such keys.
C30_KeysUnique ==
    \A n \in MapNames :
        /\ \A k \in Keys : Count(maps[n], k) <= 1
        /\ \A i \in 1..Len(maps[n]) : maps[n][i][1] \in Keys
        /\ Len(maps[n]) <= Cardinality(Keys)

\* a set of a key that the map held already has returned, and the map holds
\* as many entries as there are keys
C30_Witness ==
    \E p \in Procs :
        /\ pc[p] = "ret" /\ op[p].name = "set" /\ exc[p] = "none"
        /\ HasKey(snap[p].maps[name_mem[p]], op[p].key)
        /\ Len(maps[name_mem[p]]) = Cardinality(Keys)
        /\ Count(maps[name_mem[p]], op[p].key) = 1

\* C31: once a set, get, erase, iterate or clear call has returned, with a
\* result or with KeyError, StopIteration or bad_alloc, its caller does not
\* hold the mutex; so a call that failed leaves nothing that keeps a later
\* call of any process from acquiring it.
C31_ReturnedCallHoldsNoMutex ==
    \A p \in Procs : pc[p] = "idle" => holder # p

\* a get that found no key, or an iter at the end of the map, is at its exit
\* holding the mutex while a call of another process waits for it
C31_Witness ==
    \E p, q \in Procs :
        /\ p # q
        /\ pc[p] = "ret" /\ holder = p
        /\ \/ op[p].name = "get" /\ exc[p] = "KeyError"
           \/ op[p].name = "iter" /\ exc[p] = "StopIteration"
        /\ pc[q] = "lock"

\* C32 as stated: when a set, erase or clear made through a handle on map
\* name A is at its exit, every other map name of the segment has the entries
\* it had when the call took the mutex.
C32_OtherMapsUntouched ==
    \A p \in Procs :
        (pc[p] = "ret" /\ holder = p /\ op[p].name \in MutatingOps)
        => \A n \in MapNames \ {handle[p]} : maps[n] = snap[p].maps[n]

\* C32 for the calls whose map_name still reads as the name of their handle.
C32_OtherMapsUntouchedByNamedCalls ==
    \A p \in Procs :
        (/\ pc[p] = "ret" /\ holder = p /\ op[p].name \in MutatingOps
         /\ name_mem[p] = handle[p])
        => \A n \in MapNames \ {handle[p]} : maps[n] = snap[p].maps[n]

\* C33: shmfree leaves the handles made before it as they are and their calls
\* are carried out: no step of a call made through such a handle changes
\* anything of the segment the name denotes afterwards, so no handle made by
\* a later constructor reads what a set through the old handle stored.
C33_StaleCallsLeaveNamedSegment ==
    [][\A p \in Procs :
          (att[p] = "stale" /\ pc'[p] # pc[p])
          => UNCHANGED <<seg_size, mtx_made, holder, made, maps, handle,
                         name_mem>>]_vars

\* the removed segment holds a key set through an old handle after shmfree,
\* and a get of that key through the handle of a later constructor, no set
\* having been made on the new segment, ends with KeyError
C33_Witness ==
    \E p, q \in Procs : \E k \in orphan.late :
        /\ att[p] = "stale" /\ HasKey(orphan.maps[name_mem[p]], k)
        /\ att[q] = "created" /\ life.phase = "fresh"
        /\ name_mem[q] = name_mem[p]
        /\ pc[q] = "ret" /\ op[q].name = "get" /\ op[q].key = k
        /\ exc[q] = "KeyError"

\* C34 as stated: a get or an erase of a key that the map it looks up holds
\* does not fail with an allocation error, however few bytes are free: the get
\* returns the stored value and the erase removes the entry.
C34_LookupNeedsNoFreeBytes ==
    \A p \in Procs :
        (/\ pc[p] = "ret" /\ holder = p /\ op[p].name \in {"get", "erase"}
         /\ HasKey(snap[p].maps[name_mem[p]], op[p].key))
        => /\ exc[p] = "none"
           /\ op[p].name = "get"
                => out[p].val = ValueAt(snap[p].maps[name_mem[p]], op[p].key)
           /\ op[p].name = "erase" => ~HasKey(maps[name_mem[p]], op[p].key)

\* C35 as stated: every call made through a handle looks up the map name the
\* handle was constructed with, whatever has become of the bytes the
\* constructor was given.
C35_LooksUpConstructionName ==
    \A p \in Procs :
        pc[p] \in {"findmap", "body", "insert"} => name_mem[p] = handle[p]

\* C36 as stated: whatever map name a handle was constructed with, "mtx"
\* included, the object its methods use as the map is not the mutex.
C36_MapIsNotTheMutex ==
    \A p \in Procs :
        pc[p] \in {"alias", "body", "insert"} => name_mem[p] # MtxName

\* C36, what follows: with a handle on map name "mtx" in use, the mutex is
\* still held by no process that is between calls.
C36_MutexHeldOnlyInCalls ==
    \A p \in Procs : pc[p] = "idle" => holder # p

\* the set p's get follows with no write between them: its key bytes and
\* value bytes
C37_LatestSet == {pydict[k] : k \in {j \in KeyVals : pydict[j].last}}

\* C37 as stated: a get that follows a set with no write between them returns
\* the value bytes of that set when the two keys encode to the same bytes,
\* and otherwise finds the entry of that set not at all: it throws KeyError
\* unless an older entry has the bytes of its key.
C37_KeysMatchByEncoding ==
    \A p \in Procs : \A e \in C37_LatestSet :
        (pc[p] = "ret" /\ holder = p /\ op[p].name = "get")
        => LET b == Dumps(codec, py[p].key).bytes
           IN  /\ b = e.key => exc[p] = "none" /\ out[p].val = e.bytes
               /\ b # e.key => \/ exc[p] = "KeyError"
                               \/ HasKey(snap[p].maps[handle[p]], b)

\* C37 for the gets whose lookup did not fail for want of memory.
C37_KeysMatchByEncodingGivenMemory ==
    \A p \in Procs : \A e \in C37_LatestSet :
        (/\ pc[p] = "ret" /\ holder = p /\ op[p].name = "get"
         /\ exc[p] # "bad_alloc")
        => LET b == Dumps(codec, py[p].key).bytes
           IN  /\ b = e.key => exc[p] = "none" /\ out[p].val = e.bytes
               /\ b # e.key => \/ exc[p] = "KeyError"
                               \/ HasKey(snap[p].maps[handle[p]], b)

\* a get given a key equal to the key of the set that stored the only value,
\* but encoded to other bytes, has ended with KeyError
C37_EqualKeyOtherBytes ==
    \E p \in Procs : \E ko \in PyKeys :
        /\ pc[p] = "ret" /\ op[p].name = "get" /\ exc[p] = "KeyError"
        /\ ko.val = py[p].key.val
        /\ pydict[ko.val].last
        /\ pydict[ko.val].key = Dumps(codec, ko).bytes
        /\ Dumps(codec, ko).bytes # Dumps(codec, py[p].key).bytes

\* C38: the step by which __getitem__ or get(key, default) finds that its key
\* is not cached, which is the whole of the call's work on the cache, leaves
\* the LRUCache as it was: index, list, nodes, values and size.
C38_MissLeavesCacheUnchanged ==
    [][\A t \in Threads :
          (/\ thr[t].pc = "get_find"
           /\ lru.pageMap[thr[t].key] = NoPage
           /\ thr'[t] # thr[t])
          => thr'[t].pc = "ret" /\ lru' = lru]_vars

\* a get or a get with default of a key not cached has ended with a cache
\* that holds two other keys
C38_Witness ==
    /\ thr[Owner].pc = "ret"
    /\ thr[Owner].res \in {"KeyError", "default"}
    /\ lru.pageMap[thr[Owner].key] = NoPage
    /\ lru.size = 2
    /\ Holds(used.order, used.val)

\* C38 on the call as a whole: where a get that missed returns, the cache
\* holds the keys, in the order and with the values, that the calls before it
\* left
C38_MissReturnsOnSameCache ==
    (thr[Owner].pc = "ret" /\ thr[Owner].res \in {"KeyError", "default"})
    => /\ Holds(used.order, used.val)
       /\ lru.size = Len(used.order)
       /\ ListMatchesIndex

\* C39: after every get and put the recency list is a well-formed doubly
\* linked list: front->prev and rear->next are NULL, n->next->prev is n for
\* every Node n other than rear, following next from front arrives at rear
\* after exactly size - 1 steps, and front and rear are NULL exactly when size
\* is 0.
C39_ListWellFormed ==
    Settled =>
        /\ (lru.front = Null) <=> (lru.size = 0)
        /\ (lru.rear = Null) <=> (lru.size = 0)
        /\ lru.front # Null => Valid(lru.front) /\ Field(lru.front, "prev") = Null
        /\ lru.rear # Null => Valid(lru.rear) /\ Field(lru.rear, "next") = Null
        /\ \A n \in Addrs :
              (lru.node[n].live /\ n # lru.rear)
              => /\ Valid(lru.node[n].next)
                 /\ Field(lru.node[n].next, "prev") = n
        /\ lru.size > 0
              => /\ Len(Walk(lru.front, "next", lru.size)) = lru.size
                 /\ Walk(lru.front, "next", lru.size)[lru.size] = lru.rear
                 /\ \A i \in 1..(lru.size - 1) :
                       Walk(lru.front, "next", lru.size)[i] # lru.rear

\* a get has moved the middle Node of a list of three to the front
C39_Witness ==
    /\ thr[Owner].pc = "ret"
    /\ thr[Owner].name \in {"get", "getitem"}
    /\ lru.size = 3
    /\ Len(used.order) = 3
    /\ thr[Owner].key = used.order[2]
    /\ lru.node[lru.front].key = thr[Owner].key

\* a put has evicted the rear of a list of two or more and added its Node
C39_EvictedWitness ==
    /\ thr[Owner].pc = "ret"
    /\ thr[Owner].name = "put"
    /\ lru.size >= 2
    /\ Len(used.order) = lru.capacity
    /\ ~Among(used.order, thr[Owner].key)
    /\ lru.node[lru.front].key = thr[Owner].key

\* the Nodes that exist
C40_LiveNodes == {a \in Addrs : lru.node[a].live}

C40_EvictedWitness ==
    /\ thr[Owner].pc = "ev_dec"
    /\ lru.rear # Null
    /\ thr[Owner].temp # Null
    /\ ~Valid(thr[Owner].temp)

====
